---- MODULE Spec2Model ----
(***************************************************************************)
(* Kairoz: the persistent task orchestration engine.                       *)
(*                                                                         *)
(*   - the Task Store rows AgentTask / Deployment (prisma schema),         *)
(*   - the "agent-tasks" queue and its workers (AgentCoordinator),         *)
(*   - the "deployment" queue worker (QueueService.setupWorker),           *)
(*   - the reconciliation sweep (processPendingTasksFromDB),               *)
(*   - the registry (AgentFactory),                                        *)
(*   - the self-correction loop of DeploymentAgent.execute.                *)
(*                                                                         *)
(* Every await of the TypeScript code is a point where other handlers may  *)
(* run; a handler is cut into steps only at awaits between which another   *)
(* handler can change what the handler reads or writes next.               *)
(***************************************************************************)
EXTENDS Integers, Sequences, FiniteSets, TLC

\* ------------------------------------------------------------------ bounds
\* Bounds of the engine specification (Spec).
MaxTasks == 2
MaxUnits == 3
MaxRecon == 1
MaxJobs == 1
MaxCoordinators == 1
MaxDbFailures == 1
\* Concurrent reconciliation runs of the specification SpecRecon.
MaxConcurrentRecon == 2
\* Bounds of the worker-pool specification (SpecPool).
MaxPoolTasks == 6
MaxPoolUnits == 6
MaxPoolCoordinators == 2
\* Largest stored attempts counter DeploymentAgent.execute starts from (SpecDeploy).
MaxStartAttempts == 4

\* --------------------------------------------------------- program constants
\* Worker concurrency of one AgentCoordinator (new Worker(..., {concurrency: 5})).
Concurrency == 5
\* Batch size of one reconciliation run (findMany take: 50).
BatchLimit == 50
\* Priorities handed to queueTask.
RootPriority == 10
RecoveryPriority == 75
RetryPriority == 60
DefaultPriority == 50
\* Default queue attempt budget of TaskInputSchema.
DefaultAttempts == 1
\* Ceiling of the self-correction loop (DeploymentAgent.maxRetries).
maxRetries == 3

VARIABLES
    tasks,         \* AgentTask rows: id -> record (status "NONE": no such row)
    deployments,   \* Deployment rows: id -> status ("NONE": no such row)
    units,         \* waiting and active jobs of "agent-tasks", in the order added
    last,          \* how the job that left "agent-tasks" last ended
    totalTasks,    \* stats.totalTasks, summed over the coordinators
    invocations,   \* per task, the calls of agentFactory.executeTask made for it
    timers,        \* setTimeout callbacks pending after Orchestrator completions
    coordinators,  \* number of AgentCoordinator instances (one Worker each)
    recon,         \* the runs of processPendingTasksFromDB
    jobs,          \* jobs of the "deployment" queue
    dbFailures,    \* number of Task Store and queue calls that have thrown
    dep,           \* the activation of DeploymentAgent.execute under study
    orch,          \* the activation of OrchestratorAgent.execute under study
    mon,           \* the MonitoringAgent: its interval and healthChecks
    report         \* what getDeploymentWorkflowStatus returned last

vars == <<tasks, deployments, units, last, totalTasks, invocations, timers,
          coordinators, recon, jobs, dbFailures, dep, orch, mon, report>>

\* The agents' activations and the last status report.
agentVars == <<dep, orch, mon, report>>

\* The bounds a specification runs under.
EngineBounds == [tasks |-> MaxTasks, units |-> MaxUnits, recon |-> MaxRecon,
                 coordinators |-> MaxCoordinators, dbFailures |-> MaxDbFailures]
ReconBounds == [tasks |-> MaxTasks, units |-> MaxUnits,
                recon |-> MaxConcurrentRecon,
                coordinators |-> MaxCoordinators, dbFailures |-> 0]
PoolBounds == [tasks |-> MaxPoolTasks, units |-> MaxPoolUnits, recon |-> MaxRecon,
               coordinators |-> MaxPoolCoordinators, dbFailures |-> 0]

TaskIds == 1..(MaxPoolTasks + MaxTasks)
ReconIds == 1..(MaxRecon + MaxConcurrentRecon)
JobIds == 1..MaxJobs
\* Deployment rows: one per deployment job and the one an Orchestrator creates.
DeploymentIds == 1..(MaxJobs + 1)

\* --------------------------------------------------------------- data model
\* enum Status of the prisma schema.
Status == {"PENDING", "IN_PROGRESS", "SUCCESS", "FAILED", "REQUIRES_MANUAL_ACTION"}

\* Keys of AgentFactory.agents, set by initializeAgents.
agents == {"Orchestrator", "Deployment", "Monitoring", "Diagnosis"}

\* z.enum of TaskInputSchema.agentType.
TaskInputAgentTypes ==
    {"OrchestratorAgent", "DeploymentAgent", "MonitoringAgent", "DiagnosisAgent"}

\* errorLog of a task: a Log row of type ERROR with its agentTaskId exists.
\* stepNumber and dependencies: input.stepNumber and input.dependencies of a
\* task created for a step of a plan (0 and none for any other task).
\* Agent names given to createAgentTask: agentName is free text.
StoredAgentNames == {"Deployment", "Unknown"}

NoTask == [agentName |-> "none", status |-> "NONE", startedAt |-> FALSE,
           completedAt |-> FALSE, attempts |-> 0, output |-> "none",
           deploymentId |-> 0, errorLog |-> FALSE, stepNumber |-> 0,
           dependencies |-> {}]

\* prisma.agentTask.create with status PENDING: the schema defaults the rest.
NewTask(agentName, deploymentId) ==
    [agentName |-> agentName, status |-> "PENDING", startedAt |-> FALSE,
     completedAt |-> FALSE, attempts |-> 0, output |-> "none",
     deploymentId |-> deploymentId, errorLog |-> FALSE, stepNumber |-> 0,
     dependencies |-> {}]

Exists(t) == tasks[t].status # "NONE"

\* The id the next created AgentTask gets; ids follow createdAt.
NextTaskId == Cardinality({t \in TaskIds : Exists(t)}) + 1

\* AgentCoordinator.mapAgentNameToType. "throw": Unknown agent name.
mapAgentNameToType(agentName) ==
    CASE agentName = "Orchestrator" -> "OrchestratorAgent"
      [] agentName = "Deployment" -> "DeploymentAgent"
      [] agentName = "Monitoring" -> "MonitoringAgent"
      [] agentName = "Diagnosis" -> "DiagnosisAgent"
      [] OTHER -> "throw"

\* AgentFactory.getAgent: this.agents.get(agentType), "throw" when undefined.
getAgent(agentType) ==
    IF agentType \in agents THEN agentType ELSE "throw"

\* TaskInputSchema.parse succeeds on the agentType.
TaskInputSchemaOk(agentType) == agentType \in TaskInputAgentTypes

\* ------------------------------------------------------- the agent-tasks queue
\* A job of the queue: job.data (taskId, agentType), job.opts (priority,
\* attempts) and its state, "waiting" or "active" (a worker runs processTask on
\* it and has written IN_PROGRESS).
NewUnit(agentType, taskId, priority, attempts) ==
    [taskId |-> taskId, agentType |-> agentType, priority |-> priority,
     attempts |-> attempts, state |-> "waiting"]

UnitIds == 1..Len(units)

ActiveUnits == {u \in UnitIds : units[u].state = "active"}

RemoveAt(s, i) == [k \in 1..(Len(s) - 1) |-> IF k < i THEN s[k] ELSE s[k + 1]]

\* How a job left the queue. by: "worker" (processTask ended) or "cancelTask".
\* result: "success" / "failed" the status of the TaskResult processTask returned
\* (the job completed), "rejected" processTask threw (the job failed), "removed".
\* marked: processTask wrote IN_PROGRESS; invoked: it called executeTask.
NoEvent == [taskId |-> 0, agentType |-> "none", by |-> "none", result |-> "none",
            error |-> "none", marked |-> FALSE, invoked |-> FALSE]

\* AgentCoordinator.queueTask after a successful parse: taskQueue.add and
\* stats.totalTasks++.
queueTask(agentType, taskId, priority, attempts) ==
    /\ units' = Append(units, NewUnit(agentType, taskId, priority, attempts))
    /\ totalTasks' = totalTasks + 1

\* The model lets a coordinator queue a job while fewer than the bound were queued.
CanQueue(B) == totalTasks < B.units

\* The waiting job the queue hands to the next free worker slot: the smallest
\* priority number first, the oldest first among equals.
IsNextUnit(u) ==
    /\ units[u].state = "waiting"
    /\ \A v \in UnitIds :
         units[v].state = "waiting" =>
           \/ units[v].priority > units[u].priority
           \/ units[v].priority = units[u].priority /\ v >= u

\* prisma.agentTask.update of processTask's try block.
MarkInProgress(t) ==
    [tasks EXCEPT ![t].status = "IN_PROGRESS", ![t].startedAt = TRUE]

\* The update to FAILED with completedAt of processTask's catch block and of
\* cancelTask, on the rows `store`.
MarkFailed(store, t) ==
    [store EXCEPT ![t].status = "FAILED", ![t].completedAt = TRUE]

\* No activation of DeploymentAgent.execute. job: the state of the queue job
\* whose processTask made the call ("active", then "completed" when processTask
\* returned a TaskResult, "failed" when it threw).
NoDep == [pc |-> "idle", task |-> 0, attempt |-> 0, builds |-> 0,
          buildSuccess |-> FALSE, imageName |-> FALSE, thrown |-> "none",
          errorBuild |-> 0, rmaAt |-> 0, fixes |-> 0, startAttempts |-> 0,
          job |-> "none"]

\* No activation of OrchestratorAgent.execute. plan: the steps of the plan not
\* yet turned into tasks; created: per task created, the planned agent name and
\* the id of the row.
NoOrch == [pc |-> "idle", task |-> 0, deploymentId |-> 0, plan |-> <<>>,
           created |-> <<>>, thrown |-> "none"]

\* A MonitoringAgent that monitors nothing. interval: monitoringIntervals holds
\* the deployment; checks: healthChecks of the deployment, oldest first.
NoMon == [pc |-> "idle", task |-> 0, deploymentId |-> 0, interval |-> FALSE,
          checks |-> <<>>]

\* No call of getDeploymentWorkflowStatus was made.
NoReport == [deploymentId |-> 0, stored |-> "NONE", statuses |-> <<>>,
             overallStatus |-> "none", total |-> 0, completed |-> 0]

\* ----------------------------------------------------------------- Init
Init ==
    /\ dep = NoDep
    /\ orch = NoOrch
    /\ mon = NoMon
    /\ report = NoReport
    /\ tasks = [t \in TaskIds |-> NoTask]
    /\ deployments = [d \in DeploymentIds |-> "NONE"]
    /\ units = <<>>
    /\ last = NoEvent
    /\ totalTasks = 0
    /\ invocations = [t \in TaskIds |-> 0]
    /\ timers = 0
    /\ coordinators = 0
    /\ recon = [r \in ReconIds |-> [pc |-> "idle", batch |-> <<>>, read |-> "none",
                                    enq |-> {}]]
    /\ jobs = [j \in JobIds |-> [pc |-> "none", action |-> "none", repoUrl |-> FALSE,
                                 recon |-> 0]]
    /\ dbFailures = 0

\* ---------------------------------------------------------------- Task Store
\* The outcomes a Task Store write can have: TRUE it is applied, FALSE it throws.
DbOutcomes(B) == IF dbFailures < B.dbFailures THEN {TRUE, FALSE} ELSE {TRUE}

\* The ids of the stored rows in the order of createdAt.
AllTaskIds == [i \in DOMAIN tasks |-> i]
IsPending(t) == tasks[t].status = "PENDING"
Take(s, n) == IF Len(s) <= n THEN s ELSE SubSeq(s, 1, n)
\* findMany without take.
findPendingUnbounded == SelectSeq(AllTaskIds, IsPending)

\* where: {status: "PENDING"}, orderBy: {createdAt: "asc"}, take: 50.
findPending == Take(SelectSeq(AllTaskIds, IsPending), BatchLimit)

\* DatabaseService.createAgentTask: a PENDING row owned by an existing Deployment.
createAgentTask(B, d, agentName) ==
    /\ deployments[d] # "NONE"
    /\ NextTaskId <= B.tasks
    /\ tasks' = [tasks EXCEPT ![NextTaskId] = NewTask(agentName, d)]
    /\ UNCHANGED agentVars
    /\ UNCHANGED <<deployments, units, last, totalTasks, invocations, timers, coordinators,
                   recon, jobs, dbFailures>>

\* ----------------------------------------------------------- reconciliation
\* new AgentCoordinator(...): one more Worker of concurrency 5 on "agent-tasks".
\* The model counts the workers up to the bound.
NewCoordinator(B) ==
    IF coordinators < B.coordinators THEN coordinators + 1 ELSE coordinators

\* The runs are interchangeable: a new run takes the first idle slot.
\* The model runs up to the bound of them at a time.
FreeSlot(B, r) ==
    /\ r <= B.recon
    /\ recon[r].pc = "idle"
    /\ \A q \in ReconIds : q < r => recon[q].pc # "idle"

\* processPendingTasksFromDB up to the findMany: the run holds its snapshot.
StartRecon(B, r) ==
    /\ FreeSlot(B, r)
    /\ recon' = [recon EXCEPT ![r] = [pc |-> "loop", batch |-> findPending,
                                      read |-> "none", enq |-> {}]]

\* POST /process-pending: a new coordinator, then processPendingTasks.
ProcessPending(B, r) ==
    /\ StartRecon(B, r)
    /\ coordinators' = NewCoordinator(B)
    /\ UNCHANGED agentVars
    /\ UNCHANGED <<tasks, deployments, units, last, totalTasks, invocations, timers, jobs,
                   dbFailures>>

\* The setTimeout callback of worker.on("completed"): 500 ms after a job of the
\* OrchestratorAgent completed, processPendingTasksFromDB.
ReconAfterOrchestrator(B, r) ==
    /\ timers > 0
    /\ timers' = timers - 1
    /\ StartRecon(B, r)
    /\ UNCHANGED agentVars
    /\ UNCHANGED <<tasks, deployments, units, last, totalTasks, invocations,
                   coordinators, jobs,
                   dbFailures>>

\* ReconReRead whose loop ends at the first task mapAgentNameToType throws for.
ReconReReadAborting(r) ==
    /\ recon[r].pc = "loop"
    /\ recon[r].batch # <<>>
    /\ LET t == Head(recon[r].batch) IN
         IF mapAgentNameToType(tasks[t].agentName) # "throw"
              /\ tasks[t].status = "PENDING"
         THEN recon' = [recon EXCEPT ![r].pc = "enqueue",
                                     ![r].read = tasks[t].status]
         ELSE recon' = [recon EXCEPT ![r].batch = <<>>,
                                     ![r].read = "none"]
    /\ UNCHANGED agentVars
    /\ UNCHANGED <<tasks, deployments, units, last, totalTasks, invocations, timers,
                   coordinators, jobs, dbFailures>>

\* One turn of the for loop up to the re-read: mapAgentNameToType, findUnique and
\* the test of currentTask.status. A task that is mapped and PENDING goes on to
\* queueTask; any other is left (logged) and the loop moves on.
ReconReRead(r) ==
    /\ recon[r].pc = "loop"
    /\ recon[r].batch # <<>>
    /\ LET t == Head(recon[r].batch) IN
         IF mapAgentNameToType(tasks[t].agentName) # "throw"
              /\ tasks[t].status = "PENDING"
         THEN recon' = [recon EXCEPT ![r].pc = "enqueue",
                                     ![r].read = tasks[t].status]
         ELSE recon' = [recon EXCEPT ![r].batch = Tail(recon[r].batch),
                                     ![r].read = "none"]
    /\ UNCHANGED agentVars
    /\ UNCHANGED <<tasks, deployments, units, last, totalTasks, invocations, timers,
                   coordinators, jobs, dbFailures>>

\* queueTask(agentType, task.id, task.input, {priority: 75}) of the loop.
ReconEnqueue(B, r) ==
    /\ recon[r].pc = "enqueue"
    /\ CanQueue(B)
    /\ LET t == Head(recon[r].batch) IN
         /\ queueTask(mapAgentNameToType(tasks[t].agentName), t, RecoveryPriority,
                      DefaultAttempts)
         /\ recon' = [recon EXCEPT ![r].pc = "loop",
                                   ![r].batch = Tail(recon[r].batch),
                                   ![r].read = "none",
                                   ![r].enq = recon[r].enq \cup {t}]
    /\ UNCHANGED agentVars
    /\ UNCHANGED <<tasks, deployments, last, invocations, timers, coordinators, jobs,
                   dbFailures>>

\* One turn of the for loop in which findUnique or queueTask throws: the catch
\* of the loop logs it and the loop moves on to the next task.
ReconStepRejected(B, r) ==
    /\ recon[r].pc \in {"loop", "enqueue"}
    /\ recon[r].batch # <<>>
    /\ mapAgentNameToType(tasks[Head(recon[r].batch)].agentName) # "throw"
    /\ dbFailures < B.dbFailures
    /\ dbFailures' = dbFailures + 1
    /\ recon' = [recon EXCEPT ![r].pc = "loop",
                              ![r].batch = Tail(recon[r].batch),
                              ![r].read = "none"]
    /\ UNCHANGED agentVars
    /\ UNCHANGED <<tasks, deployments, units, last, totalTasks, invocations, timers,
                   coordinators, jobs>>

\* The loop is over: the run returns.
ReconFinish(r) ==
    /\ recon[r].pc = "loop"
    /\ recon[r].batch = <<>>
    /\ recon' = [recon EXCEPT ![r].pc = "idle", ![r].enq = {}]
    /\ UNCHANGED agentVars
    /\ UNCHANGED <<tasks, deployments, units, last, totalTasks, invocations, timers,
                   coordinators, jobs, dbFailures>>

\* -------------------------------------------------------- the deployment queue
\* The commands of deployCommandSchema, by what the deployment worker reads of
\* them: the action and whether repoUrl is given.
Commands == {<<"deploy", TRUE>>, <<"deploy", FALSE>>, <<"stop", FALSE>>}

\* router.post("/deploy"): a Deployment row (PENDING), then addDeploymentJob with
\* its id.
PostDeploy(j, command) ==
    /\ jobs[j].pc = "none"
    /\ deployments' = [deployments EXCEPT ![j] = "PENDING"]
    /\ jobs' = [jobs EXCEPT ![j] = [pc |-> "queued", action |-> command[1],
                                    repoUrl |-> command[2], recon |-> 0]]
    /\ UNCHANGED agentVars
    /\ UNCHANGED <<tasks, units, last, totalTasks, invocations, timers, coordinators, recon,
                   dbFailures>>

\* The deployment worker takes the job: new AgentCoordinator and
\* coordinator.start(), which awaits processPendingTasksFromDB.
JobStart(B, j, r) ==
    /\ jobs[j].pc = "queued"
    /\ StartRecon(B, r)
    /\ coordinators' = NewCoordinator(B)
    /\ jobs' = [jobs EXCEPT ![j].pc = "starting", ![j].recon = r]
    /\ UNCHANGED agentVars
    /\ UNCHANGED <<tasks, deployments, units, last, totalTasks, invocations, timers,
                   dbFailures>>

\* The job is a deploy with its deploymentId and repoUrl.
ValidDeploy(j) == jobs[j].action = "deploy" /\ jobs[j].repoUrl

\* JobBody with the checks of the action and of the required fields after the
\* root task is created and queued.
JobBodyUnchecked(B, j) ==
    /\ jobs[j].pc = "starting"
    /\ recon[jobs[j].recon].pc = "idle"
    /\ NextTaskId <= B.tasks
    /\ CanQueue(B)
    /\ tasks' = [tasks EXCEPT ![NextTaskId] = NewTask("Orchestrator", j)]
    /\ queueTask("OrchestratorAgent", NextTaskId, RootPriority, 1)
    /\ jobs' = [jobs EXCEPT ![j].pc = IF ValidDeploy(j) THEN "completed"
                                      ELSE "failed",
                            ![j].recon = 0]
    /\ UNCHANGED agentVars
    /\ UNCHANGED <<deployments, last, invocations, timers, coordinators, recon,
                   dbFailures>>

\* The rest of the job once start() has returned: the checks of the action and
\* of the required fields, prisma.agentTask.create of the root Orchestrator task
\* and queueTask("OrchestratorAgent", agentTask.id, ..., {priority: 10,
\* attempts: 1}); any other job throws.
JobBody(B, j) ==
    /\ jobs[j].pc = "starting"
    /\ recon[jobs[j].recon].pc = "idle"
    /\ IF ValidDeploy(j)
       THEN /\ NextTaskId <= B.tasks
            /\ CanQueue(B)
            /\ tasks' = [tasks EXCEPT ![NextTaskId] = NewTask("Orchestrator", j)]
            /\ queueTask("OrchestratorAgent", NextTaskId, RootPriority, 1)
            /\ jobs' = [jobs EXCEPT ![j].pc = "completed", ![j].recon = 0]
       ELSE /\ jobs' = [jobs EXCEPT ![j].pc = "failed", ![j].recon = 0]
            /\ UNCHANGED <<tasks, units, totalTasks>>
    /\ UNCHANGED agentVars
    /\ UNCHANGED <<deployments, last, invocations, timers, coordinators, recon,
                   dbFailures>>

\* worker.on("completed") of the deployment worker, for a deploy that succeeded:
\* after one second a new AgentCoordinator and processPendingTasks.
JobCompleted(B, j, r) ==
    /\ jobs[j].pc = "completed"
    /\ StartRecon(B, r)
    /\ coordinators' = NewCoordinator(B)
    /\ jobs' = [jobs EXCEPT ![j].pc = "done"]
    /\ UNCHANGED agentVars
    /\ UNCHANGED <<tasks, deployments, units, last, totalTasks, invocations, timers,
                   dbFailures>>

\* ------------------------------------------------------------------ the worker
\* Leave whose completed listener sets no timer.
\* A job leaves the queue. worker.on("completed") runs when processTask returned
\* a TaskResult, whatever its status: a TaskResult of the OrchestratorAgent sets
\* the 500 ms timer of the reconciliation.
LeaveNoTimer(u, by, result, error, marked, invoked) ==
    /\ units' = RemoveAt(units, u)
    /\ last' = [taskId |-> units[u].taskId, agentType |-> units[u].agentType,
                by |-> by, result |-> result, error |-> error,
                marked |-> marked, invoked |-> invoked]
    /\ timers' = timers

Leave(u, by, result, error, marked, invoked) ==
    /\ units' = RemoveAt(units, u)
    /\ last' = [taskId |-> units[u].taskId, agentType |-> units[u].agentType,
                by |-> by, result |-> result, error |-> error,
                marked |-> marked, invoked |-> invoked]
    /\ timers' = IF result \in {"success", "failed"}
                    /\ units[u].agentType = "OrchestratorAgent"
                 THEN timers + 1 ELSE timers

\* The catch block of processTask on the rows `store`, `failures` writes having
\* thrown before it: the update to FAILED with completedAt, then the return of
\* {status: "failed", error}; when the update throws, processTask rejects.
Catch(B, u, store, failures, error, marked, invoked) ==
    \E ok \in (IF failures < B.dbFailures THEN {TRUE, FALSE} ELSE {TRUE}) :
      /\ tasks' = IF ok THEN MarkFailed(store, units[u].taskId) ELSE store
      /\ dbFailures' = IF ok THEN failures ELSE failures + 1
      /\ Leave(u, "worker", IF ok THEN "failed" ELSE "rejected", error, marked,
               invoked)

\* ProcessTaskStart with the throw of the update swallowed: the job goes on to
\* executeTask without the write.
ProcessTaskStartUnmarked(B, u) ==
    /\ u \in UnitIds
    /\ IsNextUnit(u)
    /\ Cardinality(ActiveUnits) < Concurrency * coordinators
    /\ \E ok \in DbOutcomes(B) :
         /\ tasks' = IF ok THEN MarkInProgress(units[u].taskId) ELSE tasks
         /\ dbFailures' = IF ok THEN dbFailures ELSE dbFailures + 1
         /\ units' = [units EXCEPT ![u].state = "active"]
         /\ UNCHANGED <<last, timers>>
    /\ UNCHANGED agentVars
    /\ UNCHANGED <<deployments, totalTasks, invocations, coordinators, recon, jobs>>

\* processTask up to its first write: a worker with a free slot takes the next
\* waiting job and awaits the update to IN_PROGRESS with startedAt. When the
\* update throws, the catch block runs.
ProcessTaskStart(B, u) ==
    /\ u \in UnitIds
    /\ IsNextUnit(u)
    /\ Cardinality(ActiveUnits) < Concurrency * coordinators
    /\ \E ok \in DbOutcomes(B) :
         IF ok
         THEN /\ tasks' = MarkInProgress(units[u].taskId)
              /\ units' = [units EXCEPT ![u].state = "active"]
              /\ UNCHANGED <<last, timers, dbFailures>>
         ELSE Catch(B, u, tasks, dbFailures + 1, "update failed", FALSE, FALSE)
    /\ UNCHANGED agentVars
    /\ UNCHANGED <<deployments, totalTasks, invocations, coordinators, recon, jobs>>

\* How agent.execute can end: "SUCCESS" it wrote SUCCESS with its result and
\* returned, "REQUIRES_MANUAL_ACTION" it wrote that status with the analysis and
\* returned (DeploymentAgent only), "FAILED" it wrote FAILED with the error and
\* threw. Every execute first writes IN_PROGRESS.
AgentOutcomes(agent) ==
    IF agent = "Deployment"
    THEN {"SUCCESS", "FAILED", "REQUIRES_MANUAL_ACTION"}
    ELSE {"SUCCESS", "FAILED"}

\* The rows after agent.execute ended with `outcome` (BaseAgent.updateTaskStatus).
AgentWrites(t, outcome) ==
    [tasks EXCEPT ![t].status = outcome,
                  ![t].startedAt = TRUE,
                  ![t].completedAt = IF outcome \in {"SUCCESS", "FAILED"}
                                     THEN TRUE ELSE tasks[t].completedAt,
                  ![t].errorLog = @ \/ outcome # "SUCCESS",
                  ![t].output = CASE outcome = "SUCCESS" -> "result"
                                  [] outcome = "FAILED" -> "error"
                                  [] OTHER -> "analysis"]

\* processTask from agentFactory.executeTask(agentType, taskId, input) on:
\* getAgent throws "Agent type ... not found" for a key the registry does not
\* hold; otherwise agent.execute runs, and processTask returns {status:
\* "success"} when it returns and enters the catch block when it throws.
ProcessTaskExecute(B, u) ==
    /\ u \in UnitIds
    /\ units[u].state = "active"
    /\ invocations' = [invocations EXCEPT ![units[u].taskId] = @ + 1]
    /\ IF getAgent(units[u].agentType) = "throw"
       THEN Catch(B, u, tasks, dbFailures, "agent type not found", TRUE, TRUE)
       ELSE \E outcome \in AgentOutcomes(getAgent(units[u].agentType)) :
              IF outcome = "FAILED"
              THEN Catch(B, u, AgentWrites(units[u].taskId, outcome), dbFailures,
                         "agent threw", TRUE, TRUE)
              ELSE /\ tasks' = AgentWrites(units[u].taskId, outcome)
                   /\ Leave(u, "worker", "success", "none", TRUE, TRUE)
                   /\ UNCHANGED dbFailures
    /\ UNCHANGED agentVars
    /\ UNCHANGED <<deployments, totalTasks, coordinators, recon, jobs>>

\* --------------------------------------------------------- operator requests
\* cancelTask(taskId) when getJobs(["waiting", "active"]) holds a job of the
\* task: job.remove(), which throws on a job a worker holds, then the update to
\* FAILED with completedAt. Every throw is caught and false returned.
cancelTask(B, t, u) ==
    /\ u \in UnitIds
    /\ units[u].taskId = t
    /\ units[u].state = "waiting"
    /\ \E ok \in DbOutcomes(B) :
         /\ tasks' = IF ok THEN MarkFailed(tasks, t) ELSE tasks
         /\ dbFailures' = IF ok THEN dbFailures ELSE dbFailures + 1
         /\ Leave(u, "cancelTask", "removed", "none", FALSE, FALSE)
    /\ UNCHANGED agentVars
    /\ UNCHANGED <<deployments, totalTasks, invocations, coordinators, recon, jobs>>

\* retryTask with attempts: 0 added to the data of the update.
retryTaskResetsAttempts(B, t) ==
    /\ tasks[t].status = "FAILED"
    /\ tasks' = [tasks EXCEPT ![t].status = "PENDING", ![t].startedAt = FALSE,
                              ![t].completedAt = FALSE, ![t].attempts = 0]
    /\ IF TaskInputSchemaOk(tasks[t].agentName)
       THEN /\ CanQueue(B)
            /\ queueTask(tasks[t].agentName, t, RetryPriority,
                         tasks[t].attempts + 1)
       ELSE UNCHANGED <<units, totalTasks>>
    /\ UNCHANGED agentVars
    /\ UNCHANGED <<deployments, last, invocations, timers, coordinators, recon, jobs,
                   dbFailures>>

\* retryTask(taskId) on a FAILED task: the reset to PENDING with startedAt and
\* completedAt null, then queueTask(task.agentName as AgentType, taskId, input,
\* {priority: 60, attempts: task.attempts + 1}), which throws when
\* TaskInputSchema rejects the agentType.
retryTask(B, t) ==
    /\ tasks[t].status = "FAILED"
    /\ tasks' = [tasks EXCEPT ![t].status = "PENDING", ![t].startedAt = FALSE,
                              ![t].completedAt = FALSE]
    /\ IF TaskInputSchemaOk(tasks[t].agentName)
       THEN /\ CanQueue(B)
            /\ queueTask(tasks[t].agentName, t, RetryPriority,
                         tasks[t].attempts + 1)
       ELSE UNCHANGED <<units, totalTasks>>
    /\ UNCHANGED agentVars
    /\ UNCHANGED <<deployments, last, invocations, timers, coordinators, recon, jobs,
                   dbFailures>>

\* Agent types a caller hands to queueTask: the four of TaskInputSchema, the
\* registry key "Deployment" (the AgentType of agent-factory.ts) and free text.
CallerAgentTypes == TaskInputAgentTypes \cup {"Deployment", "Unknown"}

\* queueTaskCall with stats.totalTasks++ ahead of TaskInputSchema.parse.
queueTaskCallCountsFirst(B, agentType, t) ==
    /\ Exists(t)
    /\ CanQueue(B)
    /\ IF TaskInputSchemaOk(agentType)
       THEN /\ queueTask(agentType, t, DefaultPriority, DefaultAttempts)
            /\ last' = [NoEvent EXCEPT !.taskId = t, !.agentType = agentType,
                                       !.by = "queueTask", !.result = "queued"]
       ELSE /\ totalTasks' = totalTasks + 1
            /\ UNCHANGED units
            /\ last' = [NoEvent EXCEPT !.taskId = t, !.agentType = agentType,
                                       !.by = "queueTask", !.result = "threw",
                                       !.error = "invalid agentType"]
    /\ UNCHANGED agentVars
    /\ UNCHANGED <<tasks, deployments, invocations, timers, coordinators, recon,
                   jobs, dbFailures>>

\* A whole call of AgentCoordinator.queueTask(agentType, taskId, input) with no
\* options: TaskInputSchema.parse, then taskQueue.add and stats.totalTasks++;
\* a ZodError of parse is logged and rethrown by the catch. `last` keeps what
\* the caller got.
queueTaskCall(B, agentType, t) ==
    /\ Exists(t)
    /\ IF TaskInputSchemaOk(agentType)
       THEN /\ CanQueue(B)
            /\ queueTask(agentType, t, DefaultPriority, DefaultAttempts)
            /\ last' = [NoEvent EXCEPT !.taskId = t, !.agentType = agentType,
                                       !.by = "queueTask", !.result = "queued"]
       ELSE /\ UNCHANGED <<units, totalTasks>>
            /\ last' = [NoEvent EXCEPT !.taskId = t, !.agentType = agentType,
                                       !.by = "queueTask", !.result = "threw",
                                       !.error = "invalid agentType"]
    /\ UNCHANGED agentVars
    /\ UNCHANGED <<tasks, deployments, invocations, timers, coordinators, recon,
                   jobs, dbFailures>>

\* cancelTaskNotFound with the update to FAILED outside the test of the job.
cancelTaskNotFoundMarks(t) ==
    /\ \A u \in UnitIds : units[u].taskId # t
    /\ tasks' = IF Exists(t) THEN MarkFailed(tasks, t) ELSE tasks
    /\ last' = [NoEvent EXCEPT !.taskId = t, !.by = "cancelTask",
                               !.result = "false"]
    /\ UNCHANGED agentVars
    /\ UNCHANGED <<deployments, units, totalTasks, invocations, timers,
                   coordinators, recon, jobs, dbFailures>>

\* cancelTask(taskId) when getJobs(["waiting", "active"]) holds no job of the
\* task: false is returned; `last` keeps what the caller got.
cancelTaskNotFound(t) ==
    /\ \A u \in UnitIds : units[u].taskId # t
    /\ last' = [NoEvent EXCEPT !.taskId = t, !.by = "cancelTask",
                               !.result = "false"]
    /\ UNCHANGED agentVars
    /\ UNCHANGED <<tasks, deployments, units, totalTasks, invocations, timers,
                   coordinators, recon, jobs, dbFailures>>

\* retryTaskRefused with the two tests moved behind the reset of the row.
retryTaskResetThenRefused(t) ==
    /\ tasks[t].status # "FAILED"
    /\ tasks' = IF Exists(t)
                THEN [tasks EXCEPT ![t].status = "PENDING",
                                   ![t].startedAt = FALSE,
                                   ![t].completedAt = FALSE]
                ELSE tasks
    /\ last' = [NoEvent EXCEPT
                  !.taskId = t, !.by = "retryTask", !.result = "rejected",
                  !.error = IF Exists(t) THEN "not in failed state"
                            ELSE "not found"]
    /\ UNCHANGED agentVars
    /\ UNCHANGED <<deployments, units, totalTasks, invocations, timers,
                   coordinators, recon, jobs, dbFailures>>

\* retryTask(taskId) when findUnique returns no row ("Task ... not found") or a
\* row whose status is not FAILED ("Task ... is not in failed state"): the
\* throw comes before any write; `last` keeps the error the caller got.
retryTaskRefused(t) ==
    /\ tasks[t].status # "FAILED"
    /\ last' = [NoEvent EXCEPT
                  !.taskId = t, !.by = "retryTask", !.result = "rejected",
                  !.error = IF Exists(t) THEN "not in failed state"
                            ELSE "not found"]
    /\ UNCHANGED agentVars
    /\ UNCHANGED <<tasks, deployments, units, totalTasks, invocations, timers,
                   coordinators, recon, jobs, dbFailures>>

\* ------------------------------------------------------------ specifications
\* The engine without operator requests.
Engine(B) ==
    \/ \E j \in JobIds, c \in Commands : PostDeploy(j, c)
    \/ \E j \in JobIds, r \in ReconIds : JobStart(B, j, r)
    \/ \E j \in JobIds : JobBody(B, j)
    \/ \E j \in JobIds, r \in ReconIds : JobCompleted(B, j, r)
    \/ \E d \in JobIds, n \in StoredAgentNames : createAgentTask(B, d, n)
    \/ \E r \in ReconIds : ProcessPending(B, r)
    \/ \E r \in ReconIds : ReconAfterOrchestrator(B, r)
    \/ \E r \in ReconIds : ReconReRead(r)
    \/ \E r \in ReconIds : ReconEnqueue(B, r)
    \/ \E r \in ReconIds : ReconFinish(r)
    \/ \E u \in 1..B.units : ProcessTaskStart(B, u)
    \/ \E u \in 1..B.units : ProcessTaskExecute(B, u)

Operator(B) ==
    \/ \E t \in TaskIds, u \in 1..B.units : cancelTask(B, t, u)
    \/ \E t \in TaskIds : retryTask(B, t)

Next == Engine(EngineBounds) \/ Operator(EngineBounds)

Spec == Init /\ [][Next]_vars

\* The engine left to itself (no cancelTask, no retryTask, a Task Store whose
\* writes succeed), with reconciliation runs that overlap.
NextRecon == Engine(ReconBounds)

SpecRecon == Init /\ [][NextRecon]_vars

\* One deploy job from POST /deploy to its completed listener, next to Deployment
\* tasks waiting in the Task Store, with room for more tasks than one worker has
\* slots.
NextPool ==
    \/ \E j \in JobIds : PostDeploy(j, <<"deploy", TRUE>>)
    \/ \E j \in JobIds, r \in ReconIds : JobStart(PoolBounds, j, r)
    \/ \E j \in JobIds : JobBody(PoolBounds, j)
    \/ \E j \in JobIds, r \in ReconIds : JobCompleted(PoolBounds, j, r)
    \/ \E d \in JobIds : createAgentTask(PoolBounds, d, "Deployment")
    \/ \E r \in ReconIds : ReconReRead(r)
    \/ \E r \in ReconIds : ReconEnqueue(PoolBounds, r)
    \/ \E r \in ReconIds : ReconFinish(r)
    \/ \E u \in 1..PoolBounds.units : ProcessTaskStart(PoolBounds, u)
    \/ \E u \in 1..PoolBounds.units : ProcessTaskExecute(PoolBounds, u)

SpecPool == Init /\ [][NextPool]_vars

\* ------------------------------------------- DeploymentAgent.execute, step by step
\* The Task Store writes of the agent are applied; each external call (clone,
\* analysis of the repository, Dockerfile generation, build, analysis of the
\* error by the LLM, fix, docker run) returns or throws.

\* The engine's rows outside the activation.
engineVars == <<deployments, units, last, totalTasks, invocations, timers,
                coordinators, recon, jobs, dbFailures>>

\* BaseAgent.updateTaskStatus(taskId, status, output).
updateTaskStatus(t, status, output) ==
    [tasks EXCEPT
       ![t].status = status,
       ![t].startedAt = IF status = "IN_PROGRESS" /\ output = "none"
                        THEN TRUE ELSE tasks[t].startedAt,
       ![t].completedAt = IF status \in {"SUCCESS", "FAILED"}
                          THEN TRUE ELSE tasks[t].completedAt,
       ![t].output = IF output # "none" THEN output ELSE tasks[t].output]

\* BaseAgent.logMessage(agentTaskId, message, type) on the rows `store`: the
\* Log row it creates.
logMessage(store, t, type) ==
    [store EXCEPT ![t].errorLog = @ \/ type = "ERROR"]

\* incrementAttempts writing the agent's loop counter instead of incrementing
\* the stored one.
incrementAttemptsFromLoop(t) == [tasks EXCEPT ![t].attempts = dep.attempt + 1]

\* BaseAgent.incrementAttempts: attempts: {increment: 1}.
incrementAttempts(t) == [tasks EXCEPT ![t].attempts = @ + 1]

\* The test of the while loop.
LoopRuns == dep.attempt <= maxRetries /\ ~dep.buildSuccess

\* execute(taskId, input) up to the try: updateTaskStatus(IN_PROGRESS) and
\* let attempt = 1.
DeployBegin ==
    /\ dep.pc = "begin"
    /\ tasks' = updateTaskStatus(dep.task, "IN_PROGRESS", "none")
    /\ dep' = [dep EXCEPT !.pc = "prepare", !.attempt = 1]
    /\ UNCHANGED engineVars
    /\ UNCHANGED <<orch, mon, report>>

\* Steps 1 to 3: cloneRepository, analyzeRepository and the Dockerfile.
DeployPrepare(ok) ==
    /\ dep.pc = "prepare"
    /\ dep' = IF ok THEN [dep EXCEPT !.pc = "loop"]
              ELSE [dep EXCEPT !.pc = "catch", !.thrown = "prepare"]
    /\ UNCHANGED <<tasks, engineVars>>
    /\ UNCHANGED <<orch, mon, report>>

\* One turn of the while loop up to the end of the build: buildDockerImage
\* returns (buildSuccess) or throws and the ERROR log is written; a throw at attempt === maxRetries is thrown
\* on as "Build failed after 3 attempts: <its message>".
DeployBuild(ok) ==
    /\ dep.pc = "loop"
    /\ LoopRuns
    /\ dep' = IF ok
              THEN [dep EXCEPT !.builds = @ + 1, !.buildSuccess = TRUE,
                               !.imageName = TRUE]
              ELSE IF dep.attempt = maxRetries
              THEN [dep EXCEPT !.builds = @ + 1, !.pc = "catch",
                               !.thrown = "build", !.errorBuild = dep.builds + 1]
              ELSE [dep EXCEPT !.builds = @ + 1, !.pc = "analyze",
                               !.errorBuild = dep.builds + 1]
    /\ tasks' = IF ok THEN tasks ELSE logMessage(tasks, dep.task, "ERROR")
    /\ UNCHANGED engineVars
    /\ UNCHANGED <<orch, mon, report>>

\* DeployAnalyze without the return after REQUIRES_MANUAL_ACTION is written: the
\* loop goes on to the fix.
DeployAnalyzeNoReturn(outcome) ==
    /\ dep.pc = "analyze"
    /\ CASE outcome = "manual" ->
              /\ tasks' = updateTaskStatus(dep.task, "REQUIRES_MANUAL_ACTION",
                                           "analysis")
              /\ dep' = [dep EXCEPT !.pc = "fix", !.rmaAt = dep.builds]
         [] outcome = "fix" ->
              /\ dep' = [dep EXCEPT !.pc = "fix"]
              /\ UNCHANGED tasks
         [] OTHER ->
              /\ dep' = [dep EXCEPT !.pc = "catch", !.thrown = "analyze",
                                    !.errorBuild = 0]
              /\ UNCHANGED tasks
    /\ UNCHANGED engineVars
    /\ UNCHANGED <<orch, mon, report>>

\* analyzeBuildError and the test of requiresManualIntervention: "manual" the
\* analysis flags it (updateTaskStatus(REQUIRES_MANUAL_ACTION, {error, analysis,
\* repoPath}) and return), "fix" it does not, "throw" the analysis throws.
DeployAnalyze(outcome) ==
    /\ dep.pc = "analyze"
    /\ CASE outcome = "manual" ->
              /\ tasks' = updateTaskStatus(dep.task, "REQUIRES_MANUAL_ACTION",
                                           "analysis")
              /\ dep' = [dep EXCEPT !.pc = "returned", !.rmaAt = dep.builds]
         [] outcome = "fix" ->
              /\ dep' = [dep EXCEPT !.pc = "fix"]
              /\ UNCHANGED tasks
         [] OTHER ->
              /\ dep' = [dep EXCEPT !.pc = "catch", !.thrown = "analyze",
                                    !.errorBuild = 0]
              /\ UNCHANGED tasks
    /\ UNCHANGED engineVars
    /\ UNCHANGED <<orch, mon, report>>

\* applyDockerfileFix, the re-read of the Dockerfile and
\* attempt = await this.incrementAttempts(taskId).
DeployFix(ok) ==
    /\ dep.pc = "fix"
    /\ IF ok
       THEN /\ tasks' = incrementAttempts(dep.task)
            /\ dep' = [dep EXCEPT !.pc = "loop", !.fixes = @ + 1,
                                  !.attempt = tasks[dep.task].attempts + 1]
       ELSE /\ dep' = [dep EXCEPT !.pc = "catch", !.thrown = "fix",
                                  !.errorBuild = 0]
            /\ UNCHANGED tasks
    /\ UNCHANGED engineVars
    /\ UNCHANGED <<orch, mon, report>>

\* The loop is left: without an image "Failed to build Docker image" is thrown.
DeployLoopExit ==
    /\ dep.pc = "loop"
    /\ ~LoopRuns
    /\ dep' = IF dep.imageName THEN [dep EXCEPT !.pc = "run"]
              ELSE [dep EXCEPT !.pc = "catch", !.thrown = "no image",
                               !.errorBuild = 0]
    /\ UNCHANGED <<tasks, engineVars>>
    /\ UNCHANGED <<orch, mon, report>>

\* Step 5: docker run, then updateTaskStatus(SUCCESS, result) and return; a
\* docker run that throws is logged at ERROR and thrown on.
DeployRun(ok) ==
    /\ dep.pc = "run"
    /\ IF ok
       THEN /\ tasks' = updateTaskStatus(dep.task, "SUCCESS", "result")
            /\ dep' = [dep EXCEPT !.pc = "returned"]
       ELSE /\ dep' = [dep EXCEPT !.pc = "catch", !.thrown = "run",
                                  !.errorBuild = 0]
            /\ tasks' = logMessage(tasks, dep.task, "ERROR")
    /\ UNCHANGED engineVars
    /\ UNCHANGED <<orch, mon, report>>

\* The catch of execute: the ERROR log, updateTaskStatus(FAILED, {error}) and
\* throw error.
DeployCatch ==
    /\ dep.pc = "catch"
    /\ tasks' = logMessage(updateTaskStatus(dep.task, "FAILED", "error"),
                            dep.task, "ERROR")
    /\ dep' = [dep EXCEPT !.pc = "threw"]
    /\ UNCHANGED engineVars
    /\ UNCHANGED <<orch, mon, report>>

\* processTask after executeTask returned: the TaskResult {status: "success"}.
ExecuteReturned ==
    /\ dep.pc = "returned"
    /\ dep' = [dep EXCEPT !.pc = "done", !.job = "completed"]
    /\ UNCHANGED <<tasks, engineVars>>
    /\ UNCHANGED <<orch, mon, report>>

\* processTask after executeTask threw: the catch block's update to FAILED with
\* completedAt and the TaskResult {status: "failed"}.
ExecuteThrew ==
    /\ dep.pc = "threw"
    /\ tasks' = MarkFailed(tasks, dep.task)
    /\ dep' = [dep EXCEPT !.pc = "done", !.job = "completed"]
    /\ UNCHANGED engineVars
    /\ UNCHANGED <<orch, mon, report>>

\* A Deployment task the worker has marked IN_PROGRESS, whose stored attempts
\* counter is any value up to the bound, at the call of execute.
InitDeploy ==
    /\ \E a \in 0..MaxStartAttempts :
         /\ tasks = [t \in TaskIds |->
                       IF t = 1
                       THEN [NewTask("Deployment", 1) EXCEPT
                               !.status = "IN_PROGRESS", !.startedAt = TRUE,
                               !.attempts = a]
                       ELSE NoTask]
         /\ dep = [NoDep EXCEPT !.pc = "begin", !.task = 1, !.startAttempts = a,
                               !.job = "active"]
    /\ orch = NoOrch
    /\ mon = NoMon
    /\ report = NoReport
    /\ deployments = [d \in DeploymentIds |-> IF d = 1 THEN "PENDING" ELSE "NONE"]
    /\ units = <<>>
    /\ last = NoEvent
    /\ totalTasks = 0
    /\ invocations = [t \in TaskIds |-> 0]
    /\ timers = 0
    /\ coordinators = 0
    /\ recon = [r \in ReconIds |-> [pc |-> "idle", batch |-> <<>>, read |-> "none",
                                    enq |-> {}]]
    /\ jobs = [j \in JobIds |-> [pc |-> "none", action |-> "none", repoUrl |-> FALSE,
                                 recon |-> 0]]
    /\ dbFailures = 0

NextDeploy ==
    \/ DeployBegin
    \/ \E ok \in BOOLEAN : DeployPrepare(ok)
    \/ \E ok \in BOOLEAN : DeployBuild(ok)
    \/ \E outcome \in {"manual", "fix", "throw"} : DeployAnalyze(outcome)
    \/ \E ok \in BOOLEAN : DeployFix(ok)
    \/ DeployLoopExit
    \/ \E ok \in BOOLEAN : DeployRun(ok)
    \/ DeployCatch
    \/ ExecuteReturned
    \/ ExecuteThrew

SpecDeploy == InitDeploy /\ [][NextDeploy]_vars

\* The catch of execute when one of its two Task Store writes throws: the
\* prisma.log.create of logMessage (nothing is written) or the update of
\* updateTaskStatus (the ERROR log is written, the status is not). The throw
\* leaves execute in place of the caught error.
DeployCatchRejected(logged) ==
    /\ dep.pc = "catch"
    /\ dbFailures < MaxDbFailures
    /\ dbFailures' = dbFailures + 1
    /\ tasks' = IF logged THEN logMessage(tasks, dep.task, "ERROR") ELSE tasks
    /\ dep' = [dep EXCEPT !.pc = "threw"]
    /\ UNCHANGED <<deployments, units, last, totalTasks, invocations, timers,
                   coordinators, recon, jobs>>
    /\ UNCHANGED <<orch, mon, report>>

\* DeploymentAgent.execute over a Task Store whose writes in the catch block
\* can throw.
NextDeployStore ==
    \/ NextDeploy
    \/ \E logged \in BOOLEAN : DeployCatchRejected(logged)

SpecDeployStore == InitDeploy /\ [][NextDeployStore]_vars

\* ------------------------------------------ OrchestratorAgent.execute, step by step
\* Agent names are sequences of characters, as the LLM writes them in a plan.
\* Largest number of steps of a plan.
MaxPlanSteps == 2

\* The agent names of the plans: "DeploymentAgent", "deploy", "Monitor",
\* "diagnostic", "Orchestrator", "Testing", "BuildAgent".
PlannedNames ==
    {<<"D", "e", "p", "l", "o", "y", "m", "e", "n", "t", "A", "g", "e", "n", "t">>,
     <<"d", "e", "p", "l", "o", "y">>,
     <<"M", "o", "n", "i", "t", "o", "r">>,
     <<"d", "i", "a", "g", "n", "o", "s", "t", "i", "c">>,
     <<"O", "r", "c", "h", "e", "s", "t", "r", "a", "t", "o", "r">>,
     <<"T", "e", "s", "t", "i", "n", "g">>,
     <<"B", "u", "i", "l", "d", "A", "g", "e", "n", "t">>}

\* String.prototype.toLowerCase on the letters the names hold in upper case.
Lower(c) ==
    CASE c = "A" -> "a"
      [] c = "D" -> "d"
      [] c = "B" -> "b"
      [] c = "M" -> "m"
      [] c = "O" -> "o"
      [] c = "T" -> "t"
      [] OTHER -> c

toLowerCase(str) == [i \in 1..Len(str) |-> Lower(str[i])]

\* str.replace(/agent$/i, ''): a trailing "agent", in any case, is removed.
ReplaceAgentSuffix(str) ==
    IF Len(str) >= 5
         /\ toLowerCase(SubSeq(str, Len(str) - 4, Len(str))) = <<"a", "g", "e", "n", "t">>
    THEN SubSeq(str, 1, Len(str) - 5)
    ELSE str

\* agentName.toLowerCase().replace(/agent$/i, '').
normalizedName(agentName) == ReplaceAgentSuffix(toLowerCase(agentName))

\* The case labels of mapAgentName's switch.
CaseLabels ==
    {<<"d", "e", "p", "l", "o", "y", "m", "e", "n", "t">>, <<"d", "e", "p", "l", "o", "y">>,
     <<"m", "o", "n", "i", "t", "o", "r", "i", "n", "g">>, <<"m", "o", "n", "i", "t", "o", "r">>,
     <<"d", "i", "a", "g", "n", "o", "s", "i", "s">>, <<"d", "i", "a", "g", "n", "o", "s", "e">>,
     <<"d", "i", "a", "g", "n", "o", "s", "t", "i", "c">>,
     <<"o", "r", "c", "h", "e", "s", "t", "r", "a", "t", "o", "r">>, <<"o", "r", "c", "h", "e", "s", "t", "r", "a", "t", "e">>}

\* OrchestratorAgent.mapAgentName: the switch on normalizedName, with its default.
mapAgentName(agentName) ==
    LET name == normalizedName(agentName) IN
      CASE name \in {<<"d", "e", "p", "l", "o", "y", "m", "e", "n", "t">>, <<"d", "e", "p", "l", "o", "y">>} -> "Deployment"
        [] name \in {<<"m", "o", "n", "i", "t", "o", "r", "i", "n", "g">>, <<"m", "o", "n", "i", "t", "o", "r">>} -> "Monitoring"
        [] name \in {<<"d", "i", "a", "g", "n", "o", "s", "i", "s">>, <<"d", "i", "a", "g", "n", "o", "s", "e">>,
                     <<"d", "i", "a", "g", "n", "o", "s", "t", "i", "c">>} -> "Diagnosis"
        [] name \in {<<"o", "r", "c", "h", "e", "s", "t", "r", "a", "t", "o", "r">>, <<"o", "r", "c", "h", "e", "s", "t", "r", "a", "t", "e">>} -> "Orchestrator"
        [] OTHER -> "Deployment"

\* The id the next created Deployment gets.
NextDeploymentId == Cardinality({d \in DeploymentIds : deployments[d] # "NONE"}) + 1

\* The plans createDeploymentPlan can return: up to MaxPlanSteps steps.
Plans == UNION {[1..n -> PlannedNames] : n \in 0..MaxPlanSteps}

\* What the activation leaves alone.
otherVars == <<units, last, totalTasks, invocations, timers, coordinators, recon,
               jobs, dbFailures>>

\* execute(taskId, input) up to the try: updateTaskStatus(IN_PROGRESS).
OrchBegin ==
    /\ orch.pc = "begin"
    /\ tasks' = updateTaskStatus(orch.task, "IN_PROGRESS", "none")
    /\ orch' = [orch EXCEPT !.pc = "parse"]
    /\ UNCHANGED <<deployments, otherVars, dep, mon, report>>

\* Steps 1 and 2: parseUserCommand, then the Deployment of the command: "deploy"
\* a new row is created (PENDING), "other" the command names an existing one,
\* "none" it names none ('No deployment ID provided' is thrown), "throw" the
\* parse throws.
OrchParse(command) ==
    /\ orch.pc = "parse"
    /\ CASE command = "deploy" ->
              /\ NextDeploymentId \in DeploymentIds
              /\ deployments' = [deployments EXCEPT ![NextDeploymentId] = "PENDING"]
              /\ orch' = [orch EXCEPT !.pc = "plan",
                                      !.deploymentId = NextDeploymentId]
         [] command = "other" ->
              /\ orch' = [orch EXCEPT !.pc = "plan",
                                      !.deploymentId = tasks[orch.task].deploymentId]
              /\ UNCHANGED deployments
         [] OTHER ->
              /\ orch' = [orch EXCEPT !.pc = "catch", !.thrown = command]
              /\ UNCHANGED deployments
    /\ UNCHANGED <<tasks, otherVars, dep, mon, report>>

\* Step 3: createDeploymentPlan returns a plan or throws.
OrchPlan(ok, plan) ==
    /\ orch.pc = "plan"
    /\ orch' = IF ok THEN [orch EXCEPT !.pc = "steps", !.plan = plan]
               ELSE [orch EXCEPT !.pc = "catch", !.thrown = "plan"]
    /\ UNCHANGED <<tasks, deployments, otherVars, dep, mon, report>>

\* Step 4, one turn of the for loop: mapAgentName(step.agentName) and
\* prisma.agentTask.create with the standardized name, PENDING. The steps of
\* these plans are numbered in order and list no dependencies.
OrchStep ==
    /\ orch.pc = "steps"
    /\ orch.plan # <<>>
    /\ NextTaskId \in TaskIds
    /\ tasks' = [tasks EXCEPT ![NextTaskId] =
                   [NewTask(mapAgentName(Head(orch.plan)), orch.deploymentId)
                      EXCEPT !.stepNumber = Len(orch.created) + 1]]
    /\ orch' = [orch EXCEPT !.plan = Tail(orch.plan),
                            !.created = Append(orch.created,
                                               [planned |-> Head(orch.plan),
                                                id |-> NextTaskId])]
    /\ UNCHANGED <<deployments, otherVars, dep, mon, report>>

\* After the loop: updateTaskStatus(SUCCESS, result) and return.
OrchFinish ==
    /\ orch.pc = "steps"
    /\ orch.plan = <<>>
    /\ tasks' = updateTaskStatus(orch.task, "SUCCESS", "result")
    /\ orch' = [orch EXCEPT !.pc = "returned"]
    /\ UNCHANGED <<deployments, otherVars, dep, mon, report>>

\* The catch of execute: the ERROR log, updateTaskStatus(FAILED, {error}) and
\* throw error.
OrchCatch ==
    /\ orch.pc = "catch"
    /\ tasks' = logMessage(updateTaskStatus(orch.task, "FAILED", "error"),
                            orch.task, "ERROR")
    /\ orch' = [orch EXCEPT !.pc = "threw"]
    /\ UNCHANGED <<deployments, otherVars, dep, mon, report>>

\* The root Orchestrator task of deployment 1, marked IN_PROGRESS by the worker,
\* at the call of execute.
InitPlan ==
    /\ tasks = [t \in TaskIds |->
                  IF t = 1
                  THEN [NewTask("Orchestrator", 1) EXCEPT
                          !.status = "IN_PROGRESS", !.startedAt = TRUE]
                  ELSE NoTask]
    /\ orch = [NoOrch EXCEPT !.pc = "begin", !.task = 1]
    /\ deployments = [d \in DeploymentIds |-> IF d = 1 THEN "PENDING" ELSE "NONE"]
    /\ dep = NoDep
    /\ mon = NoMon
    /\ report = NoReport
    /\ units = <<>>
    /\ last = NoEvent
    /\ totalTasks = 0
    /\ invocations = [t \in TaskIds |-> 0]
    /\ timers = 0
    /\ coordinators = 0
    /\ recon = [r \in ReconIds |-> [pc |-> "idle", batch |-> <<>>, read |-> "none",
                                    enq |-> {}]]
    /\ jobs = [j \in JobIds |-> [pc |-> "none", action |-> "none", repoUrl |-> FALSE,
                                 recon |-> 0]]
    /\ dbFailures = 0

NextPlan ==
    \/ OrchBegin
    \/ \E command \in {"deploy", "other", "none", "throw"} : OrchParse(command)
    \/ \E ok \in BOOLEAN, plan \in Plans : OrchPlan(ok, plan)
    \/ OrchStep
    \/ OrchFinish
    \/ OrchCatch

SpecPlan == InitPlan /\ [][NextPlan]_vars

\* ------------------------------------------------- getDeploymentWorkflowStatus
\* Largest number of tasks of the deployment whose status is reported.
MaxStatusTasks == 3

\* deployment.tasks of the findUnique: the statuses of the deployment's tasks,
\* orderBy createdAt asc.
taskStatuses(d) ==
    LET Owned(t) == Exists(t) /\ tasks[t].deploymentId = d
        owned == SelectSeq(AllTaskIds, Owned)
    IN  [i \in 1..Len(owned) |-> tasks[owned[i]].status]

\* Array.prototype.some / every with the test t.status === status.
some(statuses, status) == \E i \in 1..Len(statuses) : statuses[i] = status
every(statuses, status) == \A i \in 1..Len(statuses) : statuses[i] = status

\* overallStatus with the chain FAILED / REQUIRES_MANUAL_ACTION exchanged.
overallStatusFailedFirst(stored, statuses) ==
    IF some(statuses, "FAILED") THEN "FAILED"
    ELSE IF some(statuses, "REQUIRES_MANUAL_ACTION") THEN "REQUIRES_MANUAL_ACTION"
    ELSE IF some(statuses, "IN_PROGRESS") THEN "IN_PROGRESS"
    ELSE IF every(statuses, "SUCCESS") THEN "SUCCESS"
    ELSE stored

\* "Determine overall status": let overallStatus = deployment.status and the
\* if / else if chain.
overallStatus(stored, statuses) ==
    IF some(statuses, "REQUIRES_MANUAL_ACTION") THEN "REQUIRES_MANUAL_ACTION"
    ELSE IF some(statuses, "FAILED") THEN "FAILED"
    ELSE IF some(statuses, "IN_PROGRESS") THEN "IN_PROGRESS"
    ELSE IF every(statuses, "SUCCESS") THEN "SUCCESS"
    ELSE stored

\* getDeploymentWorkflowStatus(deploymentId): the findUnique with the tasks, the
\* throw when there is no such deployment, the counts and the overall status.
getDeploymentWorkflowStatus(d) ==
    /\ report' =
         IF deployments[d] = "NONE"
         THEN [NoReport EXCEPT !.deploymentId = d, !.overallStatus = "not found"]
         ELSE LET statuses == taskStatuses(d) IN
              [deploymentId |-> d, stored |-> deployments[d],
               statuses |-> statuses,
               overallStatus |-> overallStatus(deployments[d], statuses),
               total |-> Len(statuses),
               completed |-> Cardinality({i \in 1..Len(statuses) :
                                 statuses[i] \in {"SUCCESS", "FAILED"}})]
    /\ UNCHANGED <<tasks, deployments, otherVars, dep, orch, mon>>

\* A deployment with any stored status and up to MaxStatusTasks tasks of any
\* statuses, in any order of creation.
InitStatus ==
    /\ deployments \in [DeploymentIds -> Status \cup {"NONE"}]
    /\ deployments[1] # "NONE"
    /\ \A d \in DeploymentIds : d > 1 => deployments[d] = "NONE"
    /\ \E n \in 0..MaxStatusTasks :
         \E statuses \in [1..n -> Status] :
            tasks = [t \in TaskIds |->
                       IF t <= n
                       THEN [NewTask("Deployment", 1) EXCEPT !.status = statuses[t]]
                       ELSE NoTask]
    /\ dep = NoDep
    /\ orch = NoOrch
    /\ mon = NoMon
    /\ report = NoReport
    /\ units = <<>>
    /\ last = NoEvent
    /\ totalTasks = 0
    /\ invocations = [t \in TaskIds |-> 0]
    /\ timers = 0
    /\ coordinators = 0
    /\ recon = [r \in ReconIds |-> [pc |-> "idle", batch |-> <<>>, read |-> "none",
                                    enq |-> {}]]
    /\ jobs = [j \in JobIds |-> [pc |-> "none", action |-> "none", repoUrl |-> FALSE,
                                 recon |-> 0]]
    /\ dbFailures = 0

NextStatus == \E d \in DeploymentIds : getDeploymentWorkflowStatus(d)

SpecStatus == InitStatus /\ [][NextStatus]_vars

\* ------------------------------------------------- a task through its lifetime
\* One Deployment task: DeploymentAgent.execute runs on it, and the engine works
\* on the same row with reconciliation (POST /process-pending), the worker,
\* cancelTask and retryTask.
NextLifecycle ==
    \/ NextDeploy
    \/ \E r \in ReconIds : ProcessPending(EngineBounds, r)
    \/ \E r \in ReconIds : ReconReRead(r)
    \/ \E r \in ReconIds : ReconEnqueue(EngineBounds, r)
    \/ \E r \in ReconIds : ReconFinish(r)
    \/ \E u \in 1..EngineBounds.units : ProcessTaskStart(EngineBounds, u)
    \/ \E u \in 1..EngineBounds.units : ProcessTaskExecute(EngineBounds, u)
    \/ Operator(EngineBounds)

SpecLifecycle == InitDeploy /\ [][NextLifecycle]_vars

\* SpecLifecycle with the retryTask calls that are refused, made on the stored
\* tasks and on one id that has no row.
NextRetry ==
    \/ NextLifecycle
    \/ \E t \in TaskIds \cap 1..NextTaskId : retryTaskRefused(t)

SpecRetry == InitDeploy /\ [][NextRetry]_vars

\* The engine with no request to POST /process-pending: reconciliation runs
\* start from coordinator.start(), from the deployment worker's completed
\* listener and from the timer of the agent worker's completed listener. Timers
\* fire and awaited calls return: the timer's run and the steps of a run are
\* weakly fair.
TriggerBounds == [tasks |-> MaxTasks, units |-> MaxUnits, recon |-> MaxRecon,
                  coordinators |-> MaxCoordinators, dbFailures |-> 0]

NextTrigger ==
    \/ \E j \in JobIds, c \in Commands : PostDeploy(j, c)
    \/ \E j \in JobIds, r \in ReconIds : JobStart(TriggerBounds, j, r)
    \/ \E j \in JobIds : JobBody(TriggerBounds, j)
    \/ \E j \in JobIds, r \in ReconIds : JobCompleted(TriggerBounds, j, r)
    \/ \E d \in JobIds, n \in StoredAgentNames :
          createAgentTask(TriggerBounds, d, n)
    \/ \E r \in ReconIds : ReconAfterOrchestrator(TriggerBounds, r)
    \/ \E r \in ReconIds : ReconReRead(r)
    \/ \E r \in ReconIds : ReconEnqueue(TriggerBounds, r)
    \/ \E r \in ReconIds : ReconFinish(r)
    \/ \E u \in 1..TriggerBounds.units : ProcessTaskStart(TriggerBounds, u)
    \/ \E u \in 1..TriggerBounds.units : ProcessTaskExecute(TriggerBounds, u)

FairTrigger ==
    /\ WF_vars(\E r \in ReconIds : ReconAfterOrchestrator(TriggerBounds, r))
    /\ WF_vars(\E r \in ReconIds : ReconReRead(r))
    /\ WF_vars(\E r \in ReconIds : ReconEnqueue(TriggerBounds, r))
    /\ WF_vars(\E r \in ReconIds : ReconFinish(r))

SpecTrigger == Init /\ [][NextTrigger]_vars /\ FairTrigger

\* retryTask and the worker on a FAILED task whose stored agentName is spelled
\* as an AgentType ("DeploymentAgent": agentName is free text, and retryTask
\* passes it on as the agentType), so that TaskInputSchema accepts the retry's
\* job; its stored attempts counter is any value up to the bound.
InitBudget ==
    /\ \E a \in 0..MaxStartAttempts :
         tasks = [t \in TaskIds |->
                    IF t = 1
                    THEN [NewTask("DeploymentAgent", 1) EXCEPT
                            !.status = "FAILED", !.startedAt = TRUE,
                            !.completedAt = TRUE, !.attempts = a]
                    ELSE NoTask]
    /\ deployments = [d \in DeploymentIds |-> IF d = 1 THEN "PENDING" ELSE "NONE"]
    /\ dep = NoDep
    /\ orch = NoOrch
    /\ mon = NoMon
    /\ report = NoReport
    /\ units = <<>>
    /\ last = NoEvent
    /\ totalTasks = 0
    /\ invocations = [t \in TaskIds |-> 0]
    /\ timers = 0
    /\ coordinators = 1
    /\ recon = [r \in ReconIds |-> [pc |-> "idle", batch |-> <<>>, read |-> "none",
                                    enq |-> {}]]
    /\ jobs = [j \in JobIds |-> [pc |-> "none", action |-> "none", repoUrl |-> FALSE,
                                 recon |-> 0]]
    /\ dbFailures = 0

NextBudget ==
    \/ \E r \in ReconIds : ProcessPending(ReconBounds, r)
    \/ \E r \in ReconIds : ReconReRead(r)
    \/ \E r \in ReconIds : ReconFinish(r)
    \/ \E u \in 1..ReconBounds.units : ProcessTaskStart(ReconBounds, u)
    \/ \E u \in 1..ReconBounds.units : ProcessTaskExecute(ReconBounds, u)
    \/ Operator(ReconBounds)

SpecBudget == InitBudget /\ [][NextBudget]_vars

\* The engine with cancelTask calls, on tasks that have a job in the queue and
\* on tasks that have none (the stored tasks and one id with no row).
NextCancelMiss ==
    \/ NextTrigger
    \/ \E t \in TaskIds, u \in 1..TriggerBounds.units :
          cancelTask(TriggerBounds, t, u)
    \/ \E t \in TaskIds \cap 1..NextTaskId : cancelTaskNotFound(t)

SpecCancelMiss == Init /\ [][NextCancelMiss]_vars

\* Callers of queueTask that pass any agent type, and the worker, on one PENDING
\* task that createAgentTask stored, with one coordinator started.
InitQueue ==
    /\ tasks = [t \in TaskIds |->
                 IF t = 1 THEN NewTask("Deployment", 1) ELSE NoTask]
    /\ deployments = [d \in DeploymentIds |-> IF d = 1 THEN "PENDING" ELSE "NONE"]
    /\ dep = NoDep
    /\ orch = NoOrch
    /\ mon = NoMon
    /\ report = NoReport
    /\ units = <<>>
    /\ last = NoEvent
    /\ totalTasks = 0
    /\ invocations = [t \in TaskIds |-> 0]
    /\ timers = 0
    /\ coordinators = 1
    /\ recon = [r \in ReconIds |-> [pc |-> "idle", batch |-> <<>>, read |-> "none",
                                    enq |-> {}]]
    /\ jobs = [j \in JobIds |-> [pc |-> "none", action |-> "none", repoUrl |-> FALSE,
                                 recon |-> 0]]
    /\ dbFailures = 0

NextQueue ==
    \/ \E a \in CallerAgentTypes, t \in TaskIds :
          queueTaskCall(TriggerBounds, a, t)
    \/ \E u \in 1..TriggerBounds.units : ProcessTaskStart(TriggerBounds, u)
    \/ \E u \in 1..TriggerBounds.units : ProcessTaskExecute(TriggerBounds, u)

SpecQueue == InitQueue /\ [][NextQueue]_vars

\* Reconciliation runs, one at a time, over a Task Store that holds about as
\* many rows as one batch takes: BatchLimit - MaxBatchSlack to BatchLimit +
\* MaxBatchSlack Deployment tasks, all PENDING but at most one.
MaxBatchSlack == 2

BatchBounds == [tasks |-> BatchLimit + MaxBatchSlack,
                units |-> BatchLimit + MaxBatchSlack, recon |-> MaxRecon,
                coordinators |-> MaxCoordinators, dbFailures |-> 0]

InitBatch ==
    /\ \E n \in (BatchLimit - MaxBatchSlack)..(BatchLimit + MaxBatchSlack) :
         \E k \in 0..n :
           tasks = [t \in 1..BatchBounds.tasks |->
                      IF t > n THEN NoTask
                      ELSE IF t = k
                      THEN [NewTask("Deployment", 1) EXCEPT
                              !.status = "SUCCESS", !.startedAt = TRUE,
                              !.completedAt = TRUE, !.output = "result"]
                      ELSE NewTask("Deployment", 1)]
    /\ deployments = [d \in DeploymentIds |-> IF d = 1 THEN "PENDING" ELSE "NONE"]
    /\ dep = NoDep
    /\ orch = NoOrch
    /\ mon = NoMon
    /\ report = NoReport
    /\ units = <<>>
    /\ last = NoEvent
    /\ totalTasks = 0
    /\ invocations = [t \in TaskIds |-> 0]
    /\ timers = 0
    /\ coordinators = 0
    /\ recon = [r \in ReconIds |-> [pc |-> "idle", batch |-> <<>>, read |-> "none",
                                    enq |-> {}]]
    /\ jobs = [j \in JobIds |-> [pc |-> "none", action |-> "none", repoUrl |-> FALSE,
                                 recon |-> 0]]
    /\ dbFailures = 0

NextBatch ==
    \/ \E r \in ReconIds : ProcessPending(BatchBounds, r)
    \/ \E r \in ReconIds : ReconReRead(r)
    \/ \E r \in ReconIds : ReconEnqueue(BatchBounds, r)
    \/ \E r \in ReconIds : ReconFinish(r)

SpecBatch == InitBatch /\ [][NextBatch]_vars

\* Repeated reconciliation runs and the worker over a Task Store that holds
\* BatchLimit - MaxBatchSlack to BatchLimit PENDING tasks of an agent name
\* mapAgentNameToType does not know and, created after them, one PENDING
\* Deployment task. Runs, their steps and the worker are weakly fair.
StarveBounds == [tasks |-> BatchLimit + MaxBatchSlack, units |-> MaxUnits,
                 recon |-> MaxRecon, coordinators |-> MaxCoordinators,
                 dbFailures |-> 0]

InitStarve ==
    /\ \E k \in (BatchLimit - MaxBatchSlack)..BatchLimit :
         tasks = [t \in 1..StarveBounds.tasks |->
                    IF t <= k THEN NewTask("Unknown", 1)
                    ELSE IF t = k + 1 THEN NewTask("Deployment", 1)
                    ELSE NoTask]
    /\ deployments = [d \in DeploymentIds |-> IF d = 1 THEN "PENDING" ELSE "NONE"]
    /\ dep = NoDep
    /\ orch = NoOrch
    /\ mon = NoMon
    /\ report = NoReport
    /\ units = <<>>
    /\ last = NoEvent
    /\ totalTasks = 0
    /\ invocations = [t \in 1..StarveBounds.tasks |-> 0]
    /\ timers = 0
    /\ coordinators = 0
    /\ recon = [r \in ReconIds |-> [pc |-> "idle", batch |-> <<>>, read |-> "none",
                                    enq |-> {}]]
    /\ jobs = [j \in JobIds |-> [pc |-> "none", action |-> "none", repoUrl |-> FALSE,
                                 recon |-> 0]]
    /\ dbFailures = 0

NextStarve ==
    \/ \E r \in ReconIds : ProcessPending(StarveBounds, r)
    \/ \E r \in ReconIds : ReconReRead(r)
    \/ \E r \in ReconIds : ReconEnqueue(StarveBounds, r)
    \/ \E r \in ReconIds : ReconFinish(r)
    \/ \E u \in 1..MaxUnits : ProcessTaskStart(StarveBounds, u)
    \/ \E u \in 1..MaxUnits : ProcessTaskExecute(StarveBounds, u)

FairStarve ==
    /\ WF_vars(\E r \in ReconIds : ProcessPending(StarveBounds, r))
    /\ WF_vars(\E r \in ReconIds : ReconReRead(r))
    /\ WF_vars(\E r \in ReconIds : ReconEnqueue(StarveBounds, r))
    /\ WF_vars(\E r \in ReconIds : ReconFinish(r))
    /\ WF_vars(\E u \in 1..MaxUnits : ProcessTaskStart(StarveBounds, u))
    /\ WF_vars(\E u \in 1..MaxUnits : ProcessTaskExecute(StarveBounds, u))

SpecStarve == InitStarve /\ [][NextStarve]_vars /\ FairStarve

\* The rows an Orchestrator left for a plan of two steps, step 2 (Monitoring)
\* listing step 1 (Deployment) as its dependency: the root task SUCCESS, the
\* two children PENDING. From there reconciliation runs and the worker.
InitDependencies ==
    /\ tasks = [t \in TaskIds |->
                  CASE t = 1 -> [NewTask("Orchestrator", 1) EXCEPT
                                   !.status = "SUCCESS", !.startedAt = TRUE,
                                   !.completedAt = TRUE, !.output = "result"]
                    [] t = 2 -> [NewTask("Deployment", 1) EXCEPT
                                   !.stepNumber = 1]
                    [] t = 3 -> [NewTask("Monitoring", 1) EXCEPT
                                   !.stepNumber = 2, !.dependencies = {1}]
                    [] OTHER -> NoTask]
    /\ deployments = [d \in DeploymentIds |-> IF d = 1 THEN "PENDING" ELSE "NONE"]
    /\ dep = NoDep
    /\ orch = NoOrch
    /\ mon = NoMon
    /\ report = NoReport
    /\ units = <<>>
    /\ last = NoEvent
    /\ totalTasks = 0
    /\ invocations = [t \in TaskIds |-> 0]
    /\ timers = 0
    /\ coordinators = 0
    /\ recon = [r \in ReconIds |-> [pc |-> "idle", batch |-> <<>>, read |-> "none",
                                    enq |-> {}]]
    /\ jobs = [j \in JobIds |-> [pc |-> "none", action |-> "none", repoUrl |-> FALSE,
                                 recon |-> 0]]
    /\ dbFailures = 0

NextDependencies ==
    \/ \E r \in ReconIds : ProcessPending(ReconBounds, r)
    \/ \E r \in ReconIds : ReconReRead(r)
    \/ \E r \in ReconIds : ReconEnqueue(ReconBounds, r)
    \/ \E r \in ReconIds : ReconFinish(r)
    \/ \E u \in 1..ReconBounds.units : ProcessTaskStart(ReconBounds, u)
    \/ \E u \in 1..ReconBounds.units : ProcessTaskExecute(ReconBounds, u)

SpecDependencies == InitDependencies /\ [][NextDependencies]_vars

\* Reconciliation runs, one at a time, over a Task Store of up to
\* MaxIsolationTasks PENDING tasks, each of a known or of an unknown agent
\* name, with calls of the loop that throw.
MaxIsolationTasks == 3

IsolationBounds == [tasks |-> MaxIsolationTasks, units |-> 2 * MaxIsolationTasks,
                    recon |-> MaxRecon, coordinators |-> MaxCoordinators,
                    dbFailures |-> MaxDbFailures]

InitIsolation ==
    /\ \E n \in 1..MaxIsolationTasks :
         \E names \in [1..n -> StoredAgentNames] :
           tasks = [t \in TaskIds |->
                      IF t <= n THEN NewTask(names[t], 1) ELSE NoTask]
    /\ deployments = [d \in DeploymentIds |-> IF d = 1 THEN "PENDING" ELSE "NONE"]
    /\ dep = NoDep
    /\ orch = NoOrch
    /\ mon = NoMon
    /\ report = NoReport
    /\ units = <<>>
    /\ last = NoEvent
    /\ totalTasks = 0
    /\ invocations = [t \in TaskIds |-> 0]
    /\ timers = 0
    /\ coordinators = 0
    /\ recon = [r \in ReconIds |-> [pc |-> "idle", batch |-> <<>>, read |-> "none",
                                    enq |-> {}]]
    /\ jobs = [j \in JobIds |-> [pc |-> "none", action |-> "none", repoUrl |-> FALSE,
                                 recon |-> 0]]
    /\ dbFailures = 0

NextIsolation ==
    \/ \E r \in ReconIds : ProcessPending(IsolationBounds, r)
    \/ \E r \in ReconIds : ReconReRead(r)
    \/ \E r \in ReconIds : ReconEnqueue(IsolationBounds, r)
    \/ \E r \in ReconIds : ReconStepRejected(IsolationBounds, r)
    \/ \E r \in ReconIds : ReconFinish(r)

SpecIsolation == InitIsolation /\ [][NextIsolation]_vars

\* The engine with cancelTask as the only operator request, a Task Store whose
\* writes succeed and reconciliation runs that overlap.
NextCancel ==
    \/ Engine(ReconBounds)
    \/ \E t \in TaskIds, u \in 1..ReconBounds.units : cancelTask(ReconBounds, t, u)

SpecCancel == Init /\ [][NextCancel]_vars

\* ------------------------------------------------------------ MonitoringAgent
\* Largest number of health checks made on the monitored deployment.
MaxChecks == 5
\* healthChecks keeps the last 100 checks of a deployment.
HealthCheckLimit == 100

\* performHealthCheck(deploymentId, containerName) with the check ending
\* `status` ("healthy" or "unhealthy"): the check is pushed on healthChecks (the
\* oldest is shifted out beyond the limit), and an unhealthy check calls
\* triggerDiagnosis, which creates a PENDING task of the agent Diagnosis owned
\* by the deployment.
performHealthCheck(status) ==
    /\ Len(mon.checks) < MaxChecks
    /\ mon' = [mon EXCEPT !.checks =
                 IF Len(mon.checks) + 1 > HealthCheckLimit
                 THEN Append(Tail(mon.checks), status)
                 ELSE Append(mon.checks, status),
                 !.pc = IF mon.pc = "initial" THEN "finish" ELSE mon.pc]
    /\ IF status = "unhealthy"
       THEN /\ NextTaskId \in TaskIds
            /\ tasks' = [tasks EXCEPT ![NextTaskId] =
                           NewTask("Diagnosis", mon.deploymentId)]
       ELSE UNCHANGED tasks
    /\ UNCHANGED <<deployments, otherVars, dep, orch, report>>

\* execute(taskId, input) up to the try: updateTaskStatus(IN_PROGRESS).
MonitorBegin ==
    /\ mon.pc = "begin"
    /\ tasks' = updateTaskStatus(mon.task, "IN_PROGRESS", "none")
    /\ mon' = [mon EXCEPT !.pc = "start"]
    /\ UNCHANGED <<deployments, otherVars, dep, orch, report>>

\* startMonitoring: setInterval(performHealthCheck, 30000), kept in
\* monitoringIntervals.
startMonitoring ==
    /\ mon.pc = "start"
    /\ mon' = [mon EXCEPT !.pc = "initial", !.interval = TRUE]
    /\ UNCHANGED <<tasks, deployments, otherVars, dep, orch, report>>

\* The initial health check of execute.
InitialHealthCheck(status) ==
    /\ mon.pc = "initial"
    /\ performHealthCheck(status)

\* A tick of the interval; the initial check of execute has been made.
IntervalHealthCheck(status) ==
    /\ mon.interval
    /\ mon.pc # "initial"
    /\ performHealthCheck(status)

\* The end of execute: getContainerLogs, updateTaskStatus(SUCCESS, result).
MonitorFinish ==
    /\ mon.pc = "finish"
    /\ tasks' = updateTaskStatus(mon.task, "SUCCESS", "result")
    /\ mon' = [mon EXCEPT !.pc = "returned"]
    /\ UNCHANGED <<deployments, otherVars, dep, orch, report>>

\* A Monitoring task of deployment 1, marked IN_PROGRESS by the worker, at the
\* call of execute.
InitMonitor ==
    /\ tasks = [t \in TaskIds |->
                  IF t = 1
                  THEN [NewTask("Monitoring", 1) EXCEPT
                          !.status = "IN_PROGRESS", !.startedAt = TRUE]
                  ELSE NoTask]
    /\ mon = [NoMon EXCEPT !.pc = "begin", !.task = 1, !.deploymentId = 1]
    /\ deployments = [d \in DeploymentIds |-> IF d = 1 THEN "PENDING" ELSE "NONE"]
    /\ dep = NoDep
    /\ orch = NoOrch
    /\ report = NoReport
    /\ units = <<>>
    /\ last = NoEvent
    /\ totalTasks = 0
    /\ invocations = [t \in TaskIds |-> 0]
    /\ timers = 0
    /\ coordinators = 0
    /\ recon = [r \in ReconIds |-> [pc |-> "idle", batch |-> <<>>, read |-> "none",
                                    enq |-> {}]]
    /\ jobs = [j \in JobIds |-> [pc |-> "none", action |-> "none", repoUrl |-> FALSE,
                                 recon |-> 0]]
    /\ dbFailures = 0

NextMonitor ==
    \/ MonitorBegin
    \/ startMonitoring
    \/ \E status \in {"healthy", "unhealthy"} : InitialHealthCheck(status)
    \/ \E status \in {"healthy", "unhealthy"} : IntervalHealthCheck(status)
    \/ MonitorFinish

SpecMonitor == InitMonitor /\ [][NextMonitor]_vars

\* ----------------------------------------------------------------- properties
\* Statuses of a task a worker has started or that is past its start.
Started == {"IN_PROGRESS", "SUCCESS", "FAILED", "REQUIRES_MANUAL_ACTION"}

\* This step is a worker taking the waiting job u: processTask either gets past
\* its first write (the job is active) or ends in this step.
Delivered(u) ==
    /\ units[u].state = "waiting"
    /\ \/ units' = [units EXCEPT ![u].state = "active"]
       \/ units' = RemoveAt(units, u) /\ last'.by = "worker"

\* C1: idempotent start. When a job is delivered to the worker while its task is
\* already IN_PROGRESS, SUCCESS, FAILED or REQUIRES_MANUAL_ACTION, the worker
\* leaves the task record as it is, does not go on to the agent (the job ends in
\* the step, no call is counted) and reports a duplicate-skip.
C1_IdempotentStart ==
    [][\A u \in UnitIds :
         (Delivered(u) /\ tasks[units[u].taskId].status \in Started) =>
            /\ tasks' = tasks
            /\ invocations' = invocations
            /\ units' = RemoveAt(units, u)
            /\ last'.result = "duplicate-skip"]_vars

\* C1: a job is waiting for a task that is already started.
C1_DuplicateWaiting ==
    \E u \in UnitIds :
      units[u].state = "waiting" /\ tasks[units[u].taskId].status \in Started

C3_OneEnqueuePerTask ==
    \A r1 \in ReconIds, r2 \in ReconIds :
       (r1 # r2 /\ recon[r1].pc # "idle" /\ recon[r2].pc # "idle") =>
          recon[r1].enq \cap recon[r2].enq = {}

\* C4: one execution of DeploymentAgent.execute calls buildDockerImage at most
\* maxRetries times, whatever the builds return and whatever the stored attempts
\* counter was at the start.
C4_BuildsWithinCeiling == dep.builds <= maxRetries

\* C5: once the analysis of a failed build has flagged manual intervention, no
\* further build is made, the attempts counter holds one increment for each
\* earlier corrected build and none for this one (it is unchanged when the
\* first build is flagged), and the task is REQUIRES_MANUAL_ACTION with the
\* analysis as output, also after processTask has returned.
C5_ManualInterventionAborts ==
    dep.rmaAt > 0 =>
       /\ dep.builds = dep.rmaAt
       /\ dep.fixes = dep.rmaAt - 1
       /\ tasks[dep.task].attempts = dep.startAttempts + dep.fixes
       /\ tasks[dep.task].status = "REQUIRES_MANUAL_ACTION"
       /\ tasks[dep.task].output = "analysis"
       /\ dep.pc \in {"returned", "done"}
       /\ dep.thrown = "none"

\* C5: the first build of a task with attempts 0 was flagged and processTask has
\* returned.
C5_FlaggedOnFirstBuild ==
    /\ dep.pc = "done"
    /\ dep.rmaAt = 1
    /\ dep.startAttempts = 0
    /\ tasks[dep.task].attempts = 0
    /\ tasks[dep.task].status = "REQUIRES_MANUAL_ACTION"

\* C6: the status of an AgentTask changes only along PENDING -> IN_PROGRESS,
\* IN_PROGRESS -> SUCCESS | FAILED | REQUIRES_MANUAL_ACTION and FAILED -> PENDING.
C6_TaskStateMachine ==
    [][\A t \in TaskIds :
         (Exists(t) /\ tasks'[t].status # tasks[t].status) =>
            <<tasks[t].status, tasks'[t].status>> \in
               {<<"PENDING", "IN_PROGRESS">>, <<"IN_PROGRESS", "SUCCESS">>,
                <<"IN_PROGRESS", "FAILED">>,
                <<"IN_PROGRESS", "REQUIRES_MANUAL_ACTION">>,
                <<"FAILED", "PENDING">>}]_vars

\* C7: a job of a task whose capability the registry knows does not end with
\* "agent type not found": the registry resolves the job's agent type.
C7_RegistryDispatch ==
    (last.by = "worker" /\ last.invoked /\ tasks[last.taskId].agentName \in agents)
       => last.error # "agent type not found"

\* C8: a job goes on to executeTask only from a step that wrote IN_PROGRESS with
\* startedAt without a throw; executeTask is called only for a job that got
\* there; and a job whose write threw ends without the call.
C8_MarkedBeforeInvoked ==
    [][/\ \A u \in UnitIds :
            (units[u].state = "waiting"
               /\ units' = [units EXCEPT ![u].state = "active"]) =>
               /\ tasks'[units[u].taskId].status = "IN_PROGRESS"
               /\ tasks'[units[u].taskId].startedAt
               /\ dbFailures' = dbFailures
       /\ \A t \in TaskIds :
            invocations'[t] > invocations[t] =>
               \E u \in UnitIds : units[u].taskId = t /\ units[u].state = "active"
       /\ (last' # last /\ last'.error = "update failed") =>
               ~last'.invoked /\ invocations' = invocations]_vars

\* C8: one task's job ended after the write and the call, another task's job
\* ended on the throw of the write, without the call.
C8_InvokedAndRefused ==
    /\ last.by = "worker"
    /\ last.error = "update failed"
    /\ invocations[last.taskId] = 0
    /\ \E t \in TaskIds : invocations[t] = 1

\* C9: when execute threw, processTask leaves the task FAILED with completedAt
\* and the job ends as failed, not as completed.
C9_FailurePropagates ==
    (dep.pc = "done" /\ dep.thrown # "none") =>
       /\ tasks[dep.task].status = "FAILED"
       /\ tasks[dep.task].completedAt
       /\ dep.job = "failed"

\* C10: the tasks being executed at the same time are at most Concurrency.
C10_ConcurrencyBound ==
    Cardinality({units[u].taskId : u \in ActiveUnits}) <= Concurrency

\* C11: a planned step whose agent name does not normalize to a capability is
\* rejected: no task is created for it.
C11_FailClosedNormalization ==
    \A i \in 1..Len(orch.created) :
       normalizedName(orch.created[i].planned) \in CaseLabels

\* C12: a reconciliation run enqueues a task only after re-reading it as PENDING,
\* and a task that is IN_PROGRESS, SUCCESS, FAILED or REQUIRES_MANUAL_ACTION when
\* the enqueue is made is not enqueued; the enqueue leaves the task rows alone.
C12_EnqueueOnlyPending ==
    [][\A r \in ReconIds :
         \A t \in recon'[r].enq \ recon[r].enq :
            /\ recon[r].read = "PENDING"
            /\ tasks[t].status = "PENDING"
            /\ tasks' = tasks]_vars

\* C13: the overall status reported for a deployment is the precedence function
\* of the multiset of its tasks' statuses (how many tasks have each status):
\* REQUIRES_MANUAL_ACTION if any has it, else FAILED if any, else IN_PROGRESS if
\* any, else SUCCESS if all are SUCCESS, else the stored status. The order of
\* the tasks plays no part.
C13_OverallStatusIsPrecedence ==
    LET Count(st) == Cardinality({i \in 1..Len(report.statuses) :
                                     report.statuses[i] = st})
        Precedence ==
            IF Count("REQUIRES_MANUAL_ACTION") > 0 THEN "REQUIRES_MANUAL_ACTION"
            ELSE IF Count("FAILED") > 0 THEN "FAILED"
            ELSE IF Count("IN_PROGRESS") > 0 THEN "IN_PROGRESS"
            ELSE IF Count("SUCCESS") = Len(report.statuses) THEN "SUCCESS"
            ELSE report.stored
    IN  report.stored # "NONE" => report.overallStatus = Precedence

\* C13: a report on three tasks where a FAILED task was created before a
\* REQUIRES_MANUAL_ACTION one and an IN_PROGRESS one.
C13_MixedStatusesReported ==
    /\ report.deploymentId = 1
    /\ report.statuses = <<"FAILED", "REQUIRES_MANUAL_ACTION", "IN_PROGRESS">>
    /\ report.overallStatus = "REQUIRES_MANUAL_ACTION"

\* C14: the stored status of every Deployment that has tasks is the precedence
\* function applied to the current statuses of its tasks.
C14_StoredStatusIsPrecedence ==
    \A d \in DeploymentIds :
       LET owned == {t \in TaskIds : Exists(t) /\ tasks[t].deploymentId = d}
           HasStatus(st) == \E t \in owned : tasks[t].status = st
           Precedence ==
               IF HasStatus("REQUIRES_MANUAL_ACTION") THEN "REQUIRES_MANUAL_ACTION"
               ELSE IF HasStatus("FAILED") THEN "FAILED"
               ELSE IF HasStatus("IN_PROGRESS") THEN "IN_PROGRESS"
               ELSE IF \A t \in owned : tasks[t].status = "SUCCESS" THEN "SUCCESS"
               ELSE deployments[d]
       IN  (deployments[d] # "NONE" /\ owned # {}) => deployments[d] = Precedence

\* C15: the stored attempts counter of a task never decreases, whatever acts on
\* the task, and so never goes back to 0.
C15_AttemptsNeverDecrease ==
    [][\A t \in TaskIds :
         Exists(t) => tasks'[t].attempts >= tasks[t].attempts]_vars

\* C15: a task whose counter the self-correction loop has raised was retried by
\* the operator after its execution ended.
C15_RetriedAfterCorrections ==
    /\ dep.pc = "done"
    /\ tasks[dep.task].status = "PENDING"
    /\ tasks[dep.task].attempts > dep.startAttempts

\* C16: retryTask on a FAILED task makes it PENDING, unsets startedAt and
\* completedAt and increments the stored attempts counter, which is positive
\* afterwards.
C16_RetryIncrementsAttempts ==
    [][\A t \in TaskIds :
         (tasks[t].status = "FAILED" /\ tasks'[t].status = "PENDING") =>
            /\ ~tasks'[t].startedAt
            /\ ~tasks'[t].completedAt
            /\ tasks'[t].attempts = tasks[t].attempts + 1
            /\ tasks'[t].attempts > 0]_vars

\* C17: cancelTask on a task whose job has not started removes the job and
\* leaves the task FAILED with completedAt; and as long as that cancellation is
\* the last thing that happened to a job of the queue, no waiting job of the
\* cancelled task is handed to a worker.
C17_CancelPreventsDispatch ==
    [][/\ (last' # last /\ last'.by = "cancelTask") =>
             /\ Len(units') = Len(units) - 1
             /\ tasks'[last'.taskId].status = "FAILED"
             /\ tasks'[last'.taskId].completedAt
       /\ last.by = "cancelTask" =>
             \A u \in UnitIds :
                units[u].taskId = last.taskId => ~Delivered(u)]_vars

\* C18: the PENDING Diagnosis tasks of the monitored deployment are as many as
\* its unhealthy episodes (the runs of consecutive unhealthy checks), however
\* many checks an episode holds.
C18_OneDiagnosisPerEpisode ==
    LET episodes == {i \in 1..Len(mon.checks) :
                        /\ mon.checks[i] = "unhealthy"
                        /\ (i = 1 \/ mon.checks[i - 1] # "unhealthy")}
        diagnoses == {t \in TaskIds :
                        /\ tasks[t].agentName = "Diagnosis"
                        /\ tasks[t].status = "PENDING"
                        /\ tasks[t].deploymentId = mon.deploymentId}
    IN  mon.interval => Cardinality(diagnoses) = Cardinality(episodes)

\* C19: whenever a job queued by reconciliation (priority RecoveryPriority) is
\* waiting, the job a worker is handed is one queued by reconciliation.
C19_RecoveryFirst ==
    [][\A u \in UnitIds :
         (/\ Delivered(u)
          /\ \E v \in UnitIds : /\ units[v].state = "waiting"
                                /\ units[v].priority = RecoveryPriority) =>
            units[u].priority = RecoveryPriority]_vars

\* C20: when processTask rejects on a job whose attempt budget is used up, the
\* task of the job is left FAILED.
C20_TerminalFailureMarksFailed ==
    [][\A u \in UnitIds :
         (/\ units[u].attempts <= 1
          /\ units' = RemoveAt(units, u)
          /\ last' # last
          /\ last'.by = "worker"
          /\ last'.result = "rejected") =>
            tasks'[units[u].taskId].status = "FAILED"]_vars

\* C21: whenever a task becomes FAILED, a Log row of type ERROR attached to the
\* task exists by the time the FAILED status is stored.
C21_ErrorLoggedBeforeFailed ==
    [][\A t \in TaskIds :
         (tasks[t].status # "FAILED" /\ tasks'[t].status = "FAILED") =>
            tasks'[t].errorLog]_vars

\* The catch block of processTask stored FAILED for a task that has no ERROR Log
\* row.
C21_FailedWithoutErrorLog ==
    \E t \in TaskIds :
       /\ tasks[t].status = "FAILED"
       /\ ~tasks[t].errorLog
       /\ last.by = "worker" /\ last.taskId = t /\ last.result = "failed"
\* C22: a retryTask call on a task that does not exist or is not FAILED ends
\* with an error and changes neither the task rows nor the queue; no task goes
\* back to PENDING from a status other than FAILED; and no job is ever queued
\* for a task that is REQUIRES_MANUAL_ACTION, a job of retry priority only for
\* a task that is FAILED.
C22_RetryRefusedUnlessFailed ==
    [][/\ (last' # last /\ last'.by = "retryTask") =>
            /\ last'.result = "rejected"
            /\ last'.error = IF Exists(last'.taskId) THEN "not in failed state"
                              ELSE "not found"
            /\ tasks' = tasks
            /\ units' = units
       /\ \A t \in TaskIds :
            (tasks'[t].status = "PENDING" /\ tasks[t].status # "PENDING") =>
               tasks[t].status \in {"NONE", "FAILED"}
       /\ totalTasks' > totalTasks =>
            LET new == units'[Len(units')]
            IN  /\ tasks[new.taskId].status # "REQUIRES_MANUAL_ACTION"
                /\ new.priority = RetryPriority =>
                      tasks[new.taskId].status = "FAILED"]_vars

\* retryTask was refused on a task that is REQUIRES_MANUAL_ACTION, which has no
\* job in the queue.
C22_ManualActionNotRetried ==
    /\ last.by = "retryTask" /\ last.result = "rejected"
    /\ last.error = "not in failed state"
    /\ tasks[last.taskId].status = "REQUIRES_MANUAL_ACTION"
    /\ \A u \in UnitIds : units[u].taskId # last.taskId
\* C23: when a reconciliation run passes a PENDING task whose stored agent name
\* mapAgentNameToType does not know, the task is FAILED with the error as its
\* output after that turn of the loop.
C23_UnknownNameSurfaced ==
    [][\A r \in ReconIds :
         (/\ recon[r].pc = "loop"
          /\ recon[r].batch # <<>>
          /\ recon'[r] # recon[r]
          /\ tasks[Head(recon[r].batch)].status = "PENDING"
          /\ mapAgentNameToType(tasks[Head(recon[r].batch)].agentName) = "throw")
         => /\ tasks'[Head(recon[r].batch)].status = "FAILED"
            /\ tasks'[Head(recon[r].batch)].output = "error"]_vars
\* C24: when execute ended because the builds failed up to the ceiling (the
\* loop threw at the ceiling or was left without an image) and no manual
\* intervention was flagged, the task is FAILED with completedAt and its output
\* is the error of the last build made.
C24_LastBuildErrorStored ==
    (/\ dep.pc \in {"threw", "done"}
     /\ dep.thrown \in {"build", "no image"}
     /\ dep.rmaAt = 0) =>
       /\ tasks[dep.task].status = "FAILED"
       /\ tasks[dep.task].completedAt
       /\ tasks[dep.task].output = "error"
       /\ dep.errorBuild = dep.builds

\* execute ended FAILED at the ceiling with the message of its last build as
\* the error.
C24_CeilingThrowCarriesLastError ==
    /\ dep.pc = "done"
    /\ dep.thrown = "build"
    /\ dep.builds > 1
    /\ dep.errorBuild = dep.builds
    /\ tasks[dep.task].status = "FAILED"
EarliestPending ==
    LET P == {t \in DOMAIN tasks : tasks[t].status = "PENDING"}
    IN  {t \in P : Cardinality({q \in P : q < t}) < BatchLimit}

\* C26: a reconciliation run queues at most BatchLimit tasks, only tasks among
\* the BatchLimit earliest created PENDING ones, each after all the earlier
\* created ones it queues, and by its end it has queued all of those.
C26_BatchEarliestInOrder ==
    [][\A r \in ReconIds :
         /\ Cardinality(recon'[r].enq) <= BatchLimit
         /\ recon'[r].enq \subseteq EarliestPending
         /\ \A t \in recon'[r].enq \ recon[r].enq :
              /\ \A q \in recon[r].enq : q < t
              /\ units' = Append(units, NewUnit("DeploymentAgent", t,
                                                RecoveryPriority, DefaultAttempts))
         /\ (recon[r].pc = "loop" /\ recon'[r].pc = "idle") =>
              recon[r].enq = EarliestPending]_vars

\* A run has queued BatchLimit tasks and its batch is used up while more than
\* BatchLimit tasks are PENDING.
C26_FullBatchOfLargerBacklog ==
    \E r \in ReconIds :
       /\ recon[r].pc = "loop"
       /\ recon[r].batch = <<>>
       /\ Cardinality(recon[r].enq) = BatchLimit
       /\ Cardinality({t \in DOMAIN tasks : tasks[t].status = "PENDING"})
             > BatchLimit
\* C27: the deployment worker's coordinator.start() begins a reconciliation run
\* over the PENDING tasks; every job of the OrchestratorAgent that completes
\* sets the timer of a run; and a PENDING task of a known agent name that is in
\* the Task Store while such a timer is set gets a job in the queue, or leaves
\* PENDING, with no request to POST /process-pending (the explored queue
\* permitting).
C27_ReconciliationTriggers ==
    /\ [][/\ \A j \in JobIds :
              (jobs[j].pc = "queued" /\ jobs'[j].pc = "starting") =>
                 \E r \in ReconIds : /\ recon[r].pc = "idle"
                                      /\ recon'[r].pc = "loop"
                                      /\ recon'[r].batch = findPending
          /\ (/\ last' # last
              /\ last'.by = "worker"
              /\ last'.agentType = "OrchestratorAgent"
              /\ last'.result \in {"success", "failed"}) =>
                 timers' = timers + 1]_vars
    /\ \A t \in 1..MaxTasks :
         (/\ timers > 0
          /\ tasks[t].status = "PENDING"
          /\ mapAgentNameToType(tasks[t].agentName) # "throw")
         ~> (\/ \E u \in UnitIds : units[u].taskId = t
             \/ tasks[t].status # "PENDING"
             \/ totalTasks >= TriggerBounds.units)

\* The run started by the timer of a completed OrchestratorAgent job has
\* queued a Deployment task: the run of start() is over and the deployment
\* worker's completed listener has not run yet.
C27_TimerRunQueuedTask ==
    /\ timers = 0
    /\ last.by = "worker" /\ last.agentType = "OrchestratorAgent"
    /\ \E j \in JobIds : jobs[j].pc = "completed"
    /\ \E r \in ReconIds :
          /\ recon[r].pc # "idle"
          /\ \E t \in recon[r].enq :
                /\ tasks[t].agentName = "Deployment"
                /\ \E u \in UnitIds : /\ units[u].taskId = t
                                       /\ units[u].priority = RecoveryPriority
C29_OneDeploymentPerIntent ==
    /\ Cardinality({d \in DeploymentIds : deployments[d] # "NONE"}) = 1
    /\ \A i \in 1..Len(orch.created) :
          tasks[orch.created[i].id].deploymentId = tasks[orch.task].deploymentId

\* The Orchestrator returned with a child task owned by a Deployment row that
\* it created itself.
C29_ChildOwnedBySecondDeployment ==
    /\ orch.pc = "returned"
    /\ orch.deploymentId # tasks[orch.task].deploymentId
    /\ deployments[orch.deploymentId] = "PENDING"
    /\ \E i \in 1..Len(orch.created) :
          tasks[orch.created[i].id].deploymentId = orch.deploymentId
\* C30: in every state a PENDING task has neither startedAt nor completedAt, a
\* task has completedAt exactly when it is SUCCESS or FAILED, and a task that
\* is IN_PROGRESS or SUCCESS has startedAt.
C30_TimestampsMatchStatus ==
    \A t \in TaskIds :
       Exists(t) =>
          /\ tasks[t].status = "PENDING" =>
                ~tasks[t].startedAt /\ ~tasks[t].completedAt
          /\ tasks[t].completedAt <=> tasks[t].status \in {"SUCCESS", "FAILED"}
          /\ tasks[t].status \in {"IN_PROGRESS", "SUCCESS"} => tasks[t].startedAt

\* A task that processTask marked FAILED is IN_PROGRESS again, a worker
\* holding a second job of it, and still has its completedAt.
C30_InProgressWithCompletedAt ==
    \E u \in UnitIds :
       /\ units[u].state = "active"
       /\ tasks[units[u].taskId].status = "IN_PROGRESS"
       /\ tasks[units[u].taskId].completedAt
\* C31: when execute has ended, by a return or by a throw, the task is SUCCESS,
\* FAILED or REQUIRES_MANUAL_ACTION, and the loop made at most maxRetries + 1
\* builds, whatever the builds, the analyses and the other calls did and
\* whatever the stored attempts counter was at the start.
C31_ExecuteEndsInFinalStatus ==
    /\ dep.builds <= maxRetries + 1
    /\ dep.pc \in {"returned", "threw"} =>
          tasks[dep.task].status \in {"SUCCESS", "FAILED", "REQUIRES_MANUAL_ACTION"}

\* execute threw out of its catch block and the task is still IN_PROGRESS.
C31_ThrewWhileInProgress ==
    /\ dep.pc = "threw"
    /\ dep.thrown # "none"
    /\ dbFailures > 0
    /\ tasks[dep.task].status = "IN_PROGRESS"
\* C32: under repeated reconciliation runs and a fair worker, every PENDING
\* task of an agent name mapAgentNameToType knows gets a job in the queue (or
\* leaves PENDING), also when older PENDING tasks that are never queued fill
\* the batch.
C32_NoStarvation ==
    \A t \in 1..StarveBounds.tasks :
       (/\ tasks[t].status = "PENDING"
        /\ mapAgentNameToType(tasks[t].agentName) # "throw")
       ~> (\/ \E u \in UnitIds : units[u].taskId = t
           \/ tasks[t].status # "PENDING")

\* A run has used up its batch without queueing anything while a Deployment
\* task is PENDING behind BatchLimit older PENDING tasks of an unknown name.
C32_BatchFilledByUnknownNames ==
    \E r \in ReconIds, t \in DOMAIN tasks :
       /\ recon[r].pc = "loop" /\ recon[r].batch = <<>> /\ recon[r].enq = {}
       /\ tasks[t].status = "PENDING" /\ tasks[t].agentName = "Deployment"
       /\ Cardinality({q \in DOMAIN tasks :
                         /\ q < t
                         /\ tasks[q].status = "PENDING"
                         /\ tasks[q].agentName = "Unknown"}) = BatchLimit
       /\ units = <<>>
\* C33: a retryTask call that takes a FAILED task to PENDING also adds exactly
\* one job for it to the queue, with the retry priority; a call that adds no
\* job leaves the task FAILED.
C33_RetryRequeues ==
    [][\A t \in TaskIds :
         (tasks[t].status = "FAILED" /\ tasks'[t].status = "PENDING") =>
            /\ Len(units') = Len(units) + 1
            /\ units'[Len(units')].taskId = t
            /\ units'[Len(units')].priority = RetryPriority
            /\ totalTasks' = totalTasks + 1]_vars
\* C34: a task whose input lists dependencies becomes IN_PROGRESS only when
\* every task of its deployment created for a listed step is SUCCESS.
C34_StartedAfterDependencies ==
    [][\A t \in TaskIds :
         (tasks[t].status # "IN_PROGRESS" /\ tasks'[t].status = "IN_PROGRESS") =>
            \A q \in TaskIds :
               (/\ Exists(q)
                /\ tasks[q].deploymentId = tasks[t].deploymentId
                /\ tasks[q].stepNumber \in tasks[t].dependencies) =>
                  tasks[q].status = "SUCCESS"]_vars

\* The worker holds the job of step 2 while the task of step 1, on which it
\* depends, has not reached SUCCESS.
C34_DependentStartedFirst ==
    \E u \in UnitIds, q \in TaskIds :
       /\ units[u].state = "active"
       /\ tasks[units[u].taskId].status = "IN_PROGRESS"
       /\ tasks[q].stepNumber \in tasks[units[u].taskId].dependencies
       /\ tasks[q].deploymentId = tasks[units[u].taskId].deploymentId
       /\ tasks[q].status \in {"PENDING", "IN_PROGRESS", "FAILED"}
\* C35: a reconciliation run goes through its whole batch and returns: when it
\* returns it has queued every PENDING task of a known agent name except those
\* whose own turn of the loop threw, and only such tasks.
C35_ErrorsIsolated ==
    [][\A r \in ReconIds :
         (recon[r].pc = "loop" /\ recon'[r].pc = "idle") =>
            LET known == {t \in TaskIds :
                            /\ tasks[t].status = "PENDING"
                            /\ mapAgentNameToType(tasks[t].agentName) # "throw"}
            IN  /\ recon[r].enq \subseteq known
                /\ Cardinality(known \ recon[r].enq) <= dbFailures
                /\ recon[r].batch = <<>>]_vars

\* A run is at its end having queued a task that came after a task of an
\* unknown name and after a task whose turn threw.
C35_QueuedAfterFailures ==
    \E r \in ReconIds, t \in TaskIds :
       /\ recon[r].pc = "loop" /\ recon[r].batch = <<>>
       /\ t \in recon[r].enq
       /\ dbFailures > 0
       /\ \E q \in 1..(t - 1) : tasks[q].agentName = "Unknown"
       /\ \E q \in 1..(t - 1) :
             /\ tasks[q].agentName = "Deployment"
             /\ q \notin recon[r].enq
\* C36: a deployment job that is not a deploy with its repoUrl ends as failed,
\* and the step that ends it creates no task and queues no job; a failed job
\* has no root Orchestrator task.
C36_InvalidJobCreatesNothing ==
    [][\A j \in JobIds :
         /\ (/\ jobs[j].pc = "starting"
             /\ jobs'[j].pc # "starting"
             /\ ~ValidDeploy(j)) =>
               /\ jobs'[j].pc = "failed"
               /\ tasks' = tasks
               /\ units' = units
               /\ totalTasks' = totalTasks
         /\ jobs'[j].pc = "failed" =>
               \A t \in TaskIds :
                  ~(/\ tasks'[t].agentName = "Orchestrator"
                    /\ tasks'[t].deploymentId = j)]_vars

\* A deploy job without repoUrl has failed; its deployment owns a task, none of
\* them an Orchestrator task.
C36_DeployWithoutRepoFailed ==
    \E j \in JobIds :
       /\ jobs[j].pc = "failed"
       /\ jobs[j].action = "deploy"
       /\ ~jobs[j].repoUrl
       /\ \E t \in TaskIds : Exists(t) /\ tasks[t].deploymentId = j
       /\ \A t \in TaskIds : tasks[t].agentName # "Orchestrator"
\* C37: a cancelTask call on a task that has no job in the queue returns false
\* and changes neither the rows of the Task Store nor the queue.
C37_CancelWithoutJobChangesNothing ==
    [][(/\ last' # last
        /\ last'.by = "cancelTask"
        /\ \A u \in UnitIds : units[u].taskId # last'.taskId) =>
          /\ last'.result = "false"
          /\ tasks' = tasks
          /\ units' = units
          /\ totalTasks' = totalTasks]_vars

\* cancelTask returned false for a task whose job has left the queue: the
\* task was marked FAILED by processTask and has no job.
C37_CancelMissedFinishedTask ==
    /\ last.by = "cancelTask" /\ last.result = "false"
    /\ Exists(last.taskId)
    /\ tasks[last.taskId].status = "FAILED"
    /\ invocations[last.taskId] > 0
    /\ \A u \in UnitIds : units[u].taskId # last.taskId
\* C38: a queueTask call with an agent type outside the four of TaskInputSchema
\* throws, adds no job and leaves stats.totalTasks unchanged; an accepted call
\* appends exactly one job and adds one to totalTasks; and no step adds a job
\* or counts one in any other way.
C38_QueueTaskAllOrNothing ==
    [][/\ (last' # last /\ last'.by = "queueTask") =>
            IF last'.agentType \in TaskInputAgentTypes
            THEN /\ last'.result = "queued"
                 /\ totalTasks' = totalTasks + 1
                 /\ Len(units') = Len(units) + 1
                 /\ SubSeq(units', 1, Len(units)) = units
                 /\ units'[Len(units')].agentType = last'.agentType
                 /\ units'[Len(units')].taskId = last'.taskId
            ELSE /\ last'.result = "threw"
                 /\ units' = units
                 /\ totalTasks' = totalTasks
       /\ (totalTasks' # totalTasks \/ Len(units') > Len(units)) =>
            /\ totalTasks' = totalTasks + 1
            /\ Len(units') = Len(units) + 1
            /\ SubSeq(units', 1, Len(units)) = units
            /\ units'[Len(units')].agentType \in TaskInputAgentTypes]_vars

\* A queueTask call with the registry key "Deployment" threw after an earlier
\* call was accepted and its job is still in the queue.
C38_RegistryKeyRejected ==
    /\ last.by = "queueTask" /\ last.result = "threw"
    /\ last.agentType = "Deployment"
    /\ totalTasks > 0
    /\ Len(units) > 0
====
